---- MODULE Spec2Model ----
(***************************************************************************)
(* A model of the templer static-site engine (src/src/api.ts): the content *)
(* store, the dependency trees, the output writer, and the generatePages   *)
(* run with its outstanding-request counter.                                *)
(*                                                                          *)
(* Paths handed to the engine (generate targets, batch path fragments,     *)
(* siteFiles keys) are sequences of one-character strings, so that the     *)
(* wildcard count, the wildcard replacement, the trailing-slash trim and   *)
(* the path resolution are computed as the code computes them.  Resolved   *)
(* absolute paths are sequences of segment strings relative to the working *)
(* directory; a leading ".." segment means "above the working directory".  *)
(***************************************************************************)
EXTENDS Integers, Sequences, FiniteSets, TLC

VARIABLES
  state,      \* Templer.state : TemplerData (api.ts 210-231)
  fsDirs,     \* directories that exist on disk
  fsMade,     \* directories the engine created (fs.mkdirSync calls issued)
  fsFiles,    \* files the engine wrote (fs.writeFile calls issued)
  attempts,   \* every write operation attempted: [op, target, threw]
  runs,       \* one record per generatePages call: its closure variables
  reqs,       \* one record per dispatched request: its closure variables
  hooks,      \* one record per invocation of the pre- or post-generate hook
  watch,      \* the watcher of cli.ts: deps, its pinger, the updateDeps calls
  steps,      \* events delivered so far: scans, runs, callback calls, removals
  hung,       \* the process is stuck inside a loop that never ends
  now,        \* the clock, new Date().getTime()
  last        \* the handler that ran last: [op, page]

vars ==
  <<state, fsDirs, fsMade, fsFiles, attempts, runs, reqs, hooks, watch, steps,
    hung, now, last>>

----------------------------------------------------------------------------
(* Bounds *)

MaxSteps == 5      \* events delivered in one behaviour
MaxSyncOps == 2    \* callback invocations inside one synchronous script body
MaxWalk == 4       \* wrapper-chain steps followed before a walk counts as endless
MaxDepth == 4      \* nested includes before the call stack overflows

----------------------------------------------------------------------------
(* Generic helpers for JS objects (functions with an explicit key set) *)

Upd(f, k, v) == [x \in (DOMAIN f) \cup {k} |-> IF x = k THEN v ELSE f[x]]

Del(f, k) == [x \in (DOMAIN f) \ {k} |-> f[x]]

Has(f, k) == k \in DOMAIN f

RemoveAt(q, i) == SubSeq(q, 1, i - 1) \o SubSeq(q, i + 1, Len(q))

RECURSIVE Cat(_)
Cat(s) == IF s = <<>> THEN "" ELSE Head(s) \o Cat(Tail(s))

----------------------------------------------------------------------------
(* Path arithmetic *)

\* generateData.generate.match(/\*/g).length
CountStars(p) == Cardinality({i \in 1..Len(p) : p[i] = "*"})

\* generateData.generate.replace(/\*/, fragment): the first wildcard only
ReplaceFirstStar(p, frag) ==
  IF CountStars(p) = 0 THEN p
  ELSE LET i == CHOOSE j \in 1..Len(p) :
                  p[j] = "*" /\ \A k \in 1..(j - 1) : p[k] # "*"
       IN SubSeq(p, 1, i - 1) \o frag \o SubSeq(p, i + 1, Len(p))

\* Templer.fixPath: trim one trailing slash
fixPath(p) ==
  IF Len(p) > 0 /\ p[Len(p)] = "/" THEN SubSeq(p, 1, Len(p) - 1) ELSE p

\* path.split("/"): the segments between slashes, empty ones included
RECURSIVE SplitAcc(_, _, _)
SplitAcc(p, cur, acc) ==
  IF p = <<>> THEN Append(acc, Cat(cur))
  ELSE IF Head(p) = "/" THEN SplitAcc(Tail(p), <<>>, Append(acc, Cat(cur)))
       ELSE SplitAcc(Tail(p), Append(cur, Head(p)), acc)

Split(p) == SplitAcc(p, <<>>, <<>>)

\* fspath.resolve / fspath.join normalisation of a segment list
RECURSIVE NormAcc(_, _)
NormAcc(segs, acc) ==
  IF segs = <<>> THEN acc
  ELSE LET h == Head(segs) IN
       IF h = "" \/ h = "." THEN NormAcc(Tail(segs), acc)
       ELSE IF h = ".." THEN
              IF acc # <<>> /\ acc[Len(acc)] # ".."
              THEN NormAcc(Tail(segs), SubSeq(acc, 1, Len(acc) - 1))
              ELSE NormAcc(Tail(segs), Append(acc, ".."))
       ELSE NormAcc(Tail(segs), Append(acc, h))

Normalize(segs) == NormAcc(segs, <<>>)

\* the configured output directory, relative to the working directory
outputDir == <<"out">>

\* "./" + fspath.join(this.outputDir, "/", path), resolved
OutDirOf(p) == Normalize(outputDir \o Split(p))

\* Templer.getEntryScriptName
getEntryScriptName(p) ==
  IF p = <<>> THEN "main" ELSE LET parts == Split(p) IN parts[Len(parts)]

\* isRelative(outPath, path) of @danglingdev/shared-ts: path lies inside
\* the output root
isRelative(root, p) ==
  /\ Len(p) >= Len(root)
  /\ SubSeq(p, 1, Len(root)) = root

----------------------------------------------------------------------------
(* The world: every variable an engine operation can touch, plus the       *)
(* registers of the call in progress: exc, an exception is propagating;    *)
(* hang, the call does not return; html, stack, cur, ret, the values a     *)
(* call hands back to its caller.                                           *)

World ==
  [state |-> state, fsDirs |-> fsDirs, fsMade |-> fsMade, fsFiles |-> fsFiles,
   attempts |-> attempts, runs |-> runs, reqs |-> reqs, hooks |-> hooks,
   watch |-> watch,
   exc |-> FALSE, hang |-> FALSE, html |-> <<>>, stack |-> <<>>, cur |-> "",
   ret |-> <<>>]

Put(w) ==
  /\ state' = w.state
  /\ fsDirs' = w.fsDirs
  /\ fsMade' = w.fsMade
  /\ fsFiles' = w.fsFiles
  /\ attempts' = w.attempts
  /\ runs' = w.runs
  /\ reqs' = w.reqs
  /\ hooks' = w.hooks
  /\ watch' = w.watch
  /\ hung' = w.hang

Throw(w) == [w EXCEPT !.exc = TRUE]

Caught(w) == [w EXCEPT !.exc = FALSE]

\* this.state.errorCount++
CountError(w) == [w EXCEPT !.state.errorCount = @ + 1]

Prefixes(p) == {SubSeq(p, 1, i) : i \in 0..Len(p)}

\* what the write call sites record about themselves
Attempt(w, op, target) ==
  [w EXCEPT !.attempts = @ \cup {[op |-> op, target |-> target, threw |-> w.exc]}]

----------------------------------------------------------------------------
(* Output writer *)

\* safeOutputCheck without its containment test
safeOutputCheck_Unchecked(w, func, path) ==
  IF func = "mkdirSync"
  THEN [w EXCEPT !.fsDirs = @ \cup Prefixes(path), !.fsMade = @ \cup {path}]
  ELSE [w EXCEPT !.fsFiles = @ \cup {path}]

\* safeOutputCheck(func, outPath, path): func is fs.mkdirSync (recursive)
\* or fs.writeFile
safeOutputCheck(w, func, path) ==
  IF ~isRelative(outputDir, path) THEN Throw(w)
  ELSE IF func = "mkdirSync"
       THEN [w EXCEPT !.fsDirs = @ \cup Prefixes(path), !.fsMade = @ \cup {path}]
       ELSE [w EXCEPT !.fsFiles = @ \cup {path}]

mkdirSyncSafe(w, path) == safeOutputCheck(w, "mkdirSync", path)

writeFileSafe(w, path) == safeOutputCheck(w, "writeFile", path)

\* Templer.markDependsOn
markDependsOn(w, template, dependency) ==
  LET t == w.state.templateDepTree
      old == IF Has(t, dependency) THEN t[dependency] ELSE {}
  IN [w EXCEPT !.state.templateDepTree = Upd(t, dependency, old \cup {template})]

\* Templer.writeEntryScript
writeEntryScript(w, template, script, path, name) ==
  LET writePath == OutDirOf(path)
      w1 == IF writePath \notin w.fsDirs THEN mkdirSyncSafe(w, writePath) ELSE w
      p == Normalize(writePath \o <<name>>)
  IN IF w1.exc THEN Attempt(w1, "entry", p)
     ELSE LET w2 == [w1 EXCEPT !.state.outputData.entry =
                        Append(@, [source |-> template, path |-> p])]
          IN Attempt(writeFileSafe(w2, p), "entry", p)

\* the wrapper walk of processEntryScripts (api.ts 448-473): the entry
\* scripts of the wrappers, outermost first
RECURSIVE EntryWalk(_, _, _, _)

\* the wrapper walk putting each wrapper's script behind the ones it has
EntryWalk_Push(w, wrapperRef, acc, fuel) ==
  IF wrapperRef = "" THEN [w EXCEPT !.ret = acc]
  ELSE IF ~Has(w.state.frontMatter, wrapperRef) THEN Throw(w)
  ELSE IF fuel = 0 THEN [w EXCEPT !.hang = TRUE]
  ELSE LET wrapperPage == w.state.frontMatter[wrapperRef].wrapper
           acc1 == IF wrapperPage # "" /\ Has(w.state.entryScripts, wrapperPage)
                   THEN acc \o <<[page |-> wrapperPage,
                                  code |-> w.state.entryScripts[wrapperPage]]>>
                   ELSE acc
       IN EntryWalk(w, wrapperPage, acc1, fuel - 1)

EntryWalk(w, wrapperRef, acc, fuel) ==
  IF wrapperRef = "" THEN [w EXCEPT !.ret = acc]
  ELSE IF ~Has(w.state.frontMatter, wrapperRef) THEN Throw(w)
  ELSE IF fuel = 0 THEN [w EXCEPT !.hang = TRUE]
  ELSE LET wrapperPage == w.state.frontMatter[wrapperRef].wrapper
           acc1 == IF wrapperPage # "" /\ Has(w.state.entryScripts, wrapperPage)
                   THEN <<[page |-> wrapperPage,
                           code |-> w.state.entryScripts[wrapperPage]]>> \o acc
                   ELSE acc
       IN EntryWalk(w, wrapperPage, acc1, fuel - 1)

\* Templer.processEntryScripts
processEntryScripts(w, pageName, outPath) ==
  LET own == IF Has(w.state.entryScripts, pageName)
             THEN <<[page |-> pageName, code |-> w.state.entryScripts[pageName]]>>
             ELSE <<>>
      Walked(e) ==
        IF e.exc \/ e.hang THEN e
        ELSE IF e.ret # <<>>
             THEN writeEntryScript(e, pageName, e.ret, outPath,
                                   getEntryScriptName(outPath) \o ".js")
             ELSE e
  IN Walked(EntryWalk(w, pageName, own, MaxWalk))

----------------------------------------------------------------------------
(* Renderer.  A compiled template is a sequence of items: "#text" emits    *)
(* the template's own text, "#bad" is template code that throws, any other *)
(* item is an include of the template of that name ("_body" is the body    *)
(* slot).  The rendered html is the sequence of the names of the templates *)
(* whose text was emitted.                                                  *)

\* the wrapper walk of renderRecursive (api.ts 607-617)
RECURSIVE WrapWalk(_, _, _, _, _)

\* the wrapper walk putting each page below the ones pushed before it
WrapWalk_Unshift(w, current, wrapCheck, wrapStack, fuel) ==
  LET fm == w.state.frontMatter
      wrapper == IF Has(fm, wrapCheck) THEN fm[wrapCheck].wrapper ELSE ""
  IN IF wrapper = "" THEN [w EXCEPT !.stack = wrapStack, !.cur = wrapCheck]
     ELSE IF fuel = 0 THEN [w EXCEPT !.hang = TRUE]
     ELSE WrapWalk(markDependsOn(w, current, wrapper), current, wrapper,
                   <<wrapCheck>> \o wrapStack, fuel - 1)

WrapWalk(w, current, wrapCheck, wrapStack, fuel) ==
  LET fm == w.state.frontMatter
      wrapper == IF Has(fm, wrapCheck) THEN fm[wrapCheck].wrapper ELSE ""
  IN IF wrapper = "" THEN [w EXCEPT !.stack = wrapStack, !.cur = wrapCheck]
     ELSE IF fuel = 0 THEN [w EXCEPT !.hang = TRUE]
     ELSE WrapWalk(markDependsOn(w, current, wrapper), current, wrapper,
                   Append(wrapStack, wrapCheck), fuel - 1)

RECURSIVE renderRecursive(_, _, _, _, _)
RECURSIVE RunTemplate(_, _, _, _, _)

\* renderRecursive rendering nothing at a body slot that has nothing to take
renderRecursive_SilentSlot(w, parent, wrapStack, current, depth) ==
  IF current = "_body"
  THEN IF wrapStack = <<>> THEN w
       ELSE LET top == wrapStack[Len(wrapStack)]
                rest == SubSeq(wrapStack, 1, Len(wrapStack) - 1)
            IN IF ~Has(w.state.templates, top) THEN Throw([w EXCEPT !.stack = rest])
               ELSE RunTemplate([w EXCEPT !.stack = rest], parent, top,
                                w.state.templates[top], depth)
  ELSE LET w1 == markDependsOn(w, parent, current)
           w2 == WrapWalk(w1, current, current, <<>>, MaxWalk)
       IN IF w2.hang THEN w2
          ELSE IF ~Has(w2.state.templates, w2.cur) THEN Throw(w2)
          ELSE LET r == RunTemplate(w2, parent, w2.cur,
                                    w2.state.templates[w2.cur], depth)
               IN [r EXCEPT !.stack = wrapStack]

\* Templer.renderRecursive(parent, wrapStack, passedData, progress, current);
\* w.stack returns the caller's wrapStack array as the call left it
renderRecursive(w, parent, wrapStack, current, depth) ==
  IF current = "_body"
  THEN IF wrapStack = <<>> THEN Throw(w)
       ELSE LET top == wrapStack[Len(wrapStack)]
                rest == SubSeq(wrapStack, 1, Len(wrapStack) - 1)
            IN IF ~Has(w.state.templates, top) THEN Throw([w EXCEPT !.stack = rest])
               ELSE RunTemplate([w EXCEPT !.stack = rest], parent, top,
                                w.state.templates[top], depth)
  ELSE LET w1 == markDependsOn(w, parent, current)
           w2 == WrapWalk(w1, current, current, <<>>, MaxWalk)
       IN IF w2.hang THEN w2
          ELSE IF ~Has(w2.state.templates, w2.cur) THEN Throw(w2)
          ELSE LET r == RunTemplate(w2, parent, w2.cur,
                                    w2.state.templates[w2.cur], depth)
               IN [r EXCEPT !.stack = wrapStack]

\* this.state.templates[current](renderData, undefined, include): the items
\* of the compiled template, in order, each include bound to w.stack
RunTemplate(w, parent, current, items, depth) ==
  IF items = <<>> \/ w.exc \/ w.hang THEN w
  ELSE LET item == Head(items) IN
       IF item = "#text"
       THEN RunTemplate([w EXCEPT !.html = Append(@, current)], parent, current,
                        Tail(items), depth)
       ELSE IF item = "#bad" THEN Throw(w)
       ELSE IF depth = 0 THEN Throw(w)
       ELSE RunTemplate(renderRecursive(w, parent, w.stack, item, depth - 1),
                        parent, current, Tail(items), depth)

\* Templer.renderTemplate(template, path, data); w.ret returns the fixed path
renderTemplate(w, template, path) ==
  LET fixed == fixPath(path)
      writePath == OutDirOf(fixed)
      p == Normalize(writePath \o <<"index.html">>)
      Written(f) ==
        IF f.exc THEN CountError(Attempt(f, "html", p))
        ELSE [Attempt(f, "html", p) EXCEPT !.ret = fixed]
      Made(m) ==
        IF m.exc THEN CountError(Attempt(m, "html", p))
        ELSE Written(writeFileSafe(
               [m EXCEPT !.state.outputData.html =
                           Append(@, [source |-> template, path |-> p])], p))
      Rendered(r) ==
        IF r.hang THEN r
        ELSE IF r.exc THEN CountError(r)
        ELSE Made(IF writePath \notin r.fsDirs THEN mkdirSyncSafe(r, writePath)
                  ELSE r)
  IN Rendered(renderRecursive([w EXCEPT !.html = <<>>], template, <<>>, template,
                              MaxDepth))

----------------------------------------------------------------------------
(* Cache *)

\* Templer.getCacheName
getCacheName(name) == "shared"

\* The expires value of a cache item, as JSON and scripts can give it:
\* [kind, num] with kind "undefined" (the item has none), "number",
\* "boolean" (num is 1 for true, 0 for false), "null", or "string" for a
\* text that is not a number.

\* if (expires)
Truthy(v) ==
  \/ v.kind = "number" /\ v.num # 0
  \/ v.kind = "boolean" /\ v.num = 1
  \/ v.kind = "string"

\* isNaN(expires): Number(expires) is NaN
IsNaN(v) == v.kind \in {"string", "undefined"}

\* the number a comparison converts expires to
ToNumber(v) == IF v.kind \in {"number", "boolean"} THEN v.num ELSE 0

\* for (const itemName in cacheGroup): a cache group is the sequence of its
\* items [name, expires] in insertion order; items are the names still to
\* visit, t is new Date().getTime()
RECURSIVE ExpireGroup(_, _, _, _)
ExpireGroup(w, cacheName, items, t) ==
  IF items = <<>> THEN w
  ELSE LET itemName == Head(items)
           cacheGroup == w.state.cache[cacheName]
           i == CHOOSE j \in 1..Len(cacheGroup) : cacheGroup[j].name = itemName
           expires == cacheGroup[i].expires
       IN IF ~Truthy(expires) THEN ExpireGroup(w, cacheName, Tail(items), t)
          ELSE IF IsNaN(expires) THEN Throw(w)
          ELSE IF t > ToNumber(expires)
               THEN ExpireGroup([w EXCEPT !.state.cache[cacheName] = RemoveAt(@, i)],
                                cacheName, Tail(items), t)
               ELSE ExpireGroup(w, cacheName, Tail(items), t)

\* the names of the items of a cache group, in order
ItemNames(cacheGroup) == [j \in 1..Len(cacheGroup) |-> cacheGroup[j].name]

RECURSIVE ExpireGroups(_, _, _)
ExpireGroups(w, names, t) ==
  IF names = {} \/ w.exc THEN w
  ELSE LET cacheName == CHOOSE x \in names : TRUE
       IN ExpireGroups(ExpireGroup(w, cacheName, ItemNames(w.state.cache[cacheName]), t),
                       names \ {cacheName}, t)

\* Templer.expireCache
expireCache(w, t) == ExpireGroups(w, DOMAIN w.state.cache, t)

----------------------------------------------------------------------------
(* processGeneratorResponse.  A response is a record                       *)
(* [defined, cache, outData, siteFiles, watchFiles, watchGlobs]; a field   *)
(* the script left out is the empty sequence (cache and outData hold a     *)
(* one-element sequence when present).                                      *)

\* the siteFiles loop (api.ts 506-544)
RECURSIVE WriteSiteFiles(_, _, _)
WriteSiteFiles(w, files, name) ==
  IF files = <<>> \/ w.exc THEN w
  ELSE LET p == Normalize(outputDir \o Split(Head(files)))
           writePath == SubSeq(p, 1, Len(p) - 1)
           m == IF writePath \notin w.fsDirs THEN mkdirSyncSafe(w, writePath) ELSE w
           l == [m EXCEPT !.state.outputData.json =
                             Append(@, [source |-> name, path |-> p])]
       IN IF m.exc THEN Attempt(m, "json", p)
          ELSE WriteSiteFiles(Attempt(writeFileSafe(l, p), "json", p), Tail(files), name)

\* response.watchFiles.forEach (api.ts 546-554)
RECURSIVE WatchFiles(_, _, _)
WatchFiles(w, files, name) ==
  IF files = <<>> THEN w
  ELSE LET dep == Normalize(Split(Head(files)))
           t == w.state.pathDepTree
           old == IF Has(t, dep) THEN t[dep] ELSE {}
       IN WatchFiles([w EXCEPT !.state.pathDepTree = Upd(t, dep, old \cup {name})],
                     Tail(files), name)

\* the index of a glob in the wild tree, 0 when it is not a key
WildIndex(tree, glob) ==
  IF \E i \in 1..Len(tree) : tree[i].key = glob
  THEN CHOOSE i \in 1..Len(tree) : tree[i].key = glob
  ELSE 0

\* response.watchGlobs.forEach (api.ts 555-562); the wild tree keeps its
\* keys in insertion order, as Object.keys returns them
RECURSIVE WatchGlobs(_, _, _)
WatchGlobs(w, globs, name) ==
  IF globs = <<>> THEN w
  ELSE LET glob == Head(globs)
           t == w.state.wildDepTree
           i == WildIndex(t, glob)
           t1 == IF i = 0 THEN Append(t, [key |-> glob, deps |-> {name}])
                 ELSE [t EXCEPT ![i].deps = @ \cup {name}]
       IN WatchGlobs([w EXCEPT !.state.wildDepTree = t1], Tail(globs), name)

\* Templer.processGeneratorResponse
\* the cache group was replaced by another object or deleted: the objects
\* handed to the scripts so far are no longer the cache group of the engine
\* (reqs[i].live)
Detached(w) ==
  [w EXCEPT !.reqs = [i \in 1..Len(w.reqs) |-> [w.reqs[i] EXCEPT !.live = FALSE]]]

processGeneratorResponse(w, response, name, cacheName) ==
  IF ~response.defined THEN w
  ELSE LET c == IF response.cache # <<>>
                THEN Detached([w EXCEPT !.state.cache =
                                          Upd(@, cacheName, response.cache[1])])
                ELSE w
           o == IF response.outData # <<>>
                THEN [c EXCEPT !.state.outputData.outData =
                                  Upd(@, name, response.outData[1])]
                ELSE c
           f == WriteSiteFiles(o, response.siteFiles, name)
       IN IF f.exc THEN f
          ELSE WatchGlobs(WatchFiles(f, response.watchFiles, name),
                          response.watchGlobs, name)

----------------------------------------------------------------------------
(* Global data.  state.globalData is [defined, data, obj]: data maps the   *)
(* keys to their values (numbers; 0 is a value JavaScript takes as false), *)
(* defined is FALSE when the pre-generate hook resolved without a global   *)
(* field and left the store undefined, and obj tells the objects apart     *)
(* that the field has referred to: 0 is the object of the constructor,     *)
(* and every assignment of a response's global makes the next one.         *)

\* Templer.getGlobalDataAccessProxy(name): new Proxy(state.globalData, ..)
\* throws a TypeError when the target is undefined; w.ret returns the target
getGlobalDataAccessProxy(w, name) ==
  IF ~w.state.globalData.defined THEN Throw(w)
  ELSE [w EXCEPT !.ret = w.state.globalData.data]

\* the get trap recording the page before it looks at the key
GlobalGet_RecordFirst(w, name, target, key) ==
  LET g == w.state.globalData
      r == [w EXCEPT !.state.globalDeps = @ \cup {name}]
  IN IF ~g.defined THEN Throw(r)
     ELSE IF ~(Has(g.data, key) /\ g.data[key] # 0) THEN Throw(r)
     ELSE [r EXCEPT !.ret = IF Has(target, key) THEN <<target[key]>> ELSE <<>>]

\* the get trap of the proxy (api.ts 343-352) for a read of key by a script
\* of page name; target is the store the proxy was made for; w.ret returns
\* the value read, <<>> for undefined
GlobalGet(w, name, target, key) ==
  LET g == w.state.globalData
  IN IF ~g.defined THEN Throw(w)
     ELSE IF ~(Has(g.data, key) /\ g.data[key] # 0) THEN Throw(w)
     ELSE [w EXCEPT !.state.globalDeps = @ \cup {name},
                    !.ret = IF Has(target, key) THEN <<target[key]>> ELSE <<>>]

----------------------------------------------------------------------------
(* generatePages: the closures of one run.  runs[k] holds the variables of *)
(* the k-th call (toRender, the toGenerate snapshot, the position of the   *)
(* forEach loop, how often resolve() of its promise was called); reqs[i]   *)
(* holds the variables of one dispatched request (rendered, the pinger)    *)
(* and what its script has done so far; reqs[i].renders lists the paths    *)
(* handed to renderTemplate, reqs[i].htmls the html of the renders that    *)
(* returned, reqs[i].entries the entry scripts composed for them (<<>>     *)
(* where there was nothing to compose).                                     *)

\* checkDone(pageName, generated, outPath) of run k
checkDone(w, k, pageName, generated, outPath) ==
  LET Count(e) ==
        IF e.exc \/ e.hang THEN e
        ELSE [e EXCEPT !.runs[k].toRender = @ - 1,
                       !.runs[k].resolved =
                          IF e.runs[k].toRender - 1 = 0 THEN @ + 1 ELSE @]
  IN Count(IF generated THEN processEntryScripts(w, pageName, outPath) ELSE w)

\* try { renderTemplate; checkDone(.., true, fixedPath) } catch { checkDone }
\* as generateSimple and the batch loop both do it
RenderAndCheck(w, i, pageName, path) ==
  LET k == w.reqs[i].run
      Checked(c) ==
        IF c.hang THEN c
        ELSE IF c.exc THEN checkDone(Caught(c), k, pageName, FALSE, <<>>)
        ELSE [c EXCEPT !.reqs[i].entries = Append(@, c.ret)]
      Rendered(r) ==
        IF r.hang THEN r
        ELSE IF r.exc THEN checkDone(Caught(r), k, pageName, FALSE, <<>>)
        ELSE Checked(checkDone([r EXCEPT !.reqs[i].htmls = Append(@, r.html)],
                               k, pageName, TRUE, r.ret))
  IN Rendered(renderTemplate([w EXCEPT !.reqs[i].renders = Append(@, path)],
                             pageName, path))

\* generateSimple(pageName, path): the data object with its proxy is built
\* outside the try block
generateSimple(w, i, pageName, path) ==
  IF getGlobalDataAccessProxy(w, pageName).exc THEN Throw(w)
  ELSE RenderAndCheck(w, i, pageName, path)

\* generateDone that forgets toRender++ before its auto-render
generateDone_NoIncrement(w, i, response) ==
  LET q == w.reqs[i]
      k == q.run
      s == [w EXCEPT !.reqs[i].pinger = FALSE]
      Processed(p) == IF p.exc THEN p ELSE checkDone(p, k, q.name, FALSE, <<>>)
      Generated(g) ==
        IF g.hang \/ g.exc THEN g
        ELSE Processed(processGeneratorResponse(g, response, q.name,
                                                getCacheName(q.name)))
  IN Generated(IF q.rendered = 0 /\ CountStars(q.generate) = 0
               THEN generateSimple(s, i, q.name, q.generate)
               ELSE s)

\* generateDone that never auto-renders
generateDone_NoAutoRender(w, i, response) ==
  LET q == w.reqs[i]
      Processed(p) ==
        IF p.exc THEN p ELSE checkDone(p, q.run, q.name, FALSE, <<>>)
  IN Processed(processGeneratorResponse([w EXCEPT !.reqs[i].pinger = FALSE],
                                        response, q.name, getCacheName(q.name)))

\* generateDone(response): the resolve callback handed to the script
generateDone(w, i, response) ==
  LET q == w.reqs[i]
      k == q.run
      s == [w EXCEPT !.reqs[i].pinger = FALSE]
      Processed(p) == IF p.exc THEN p ELSE checkDone(p, k, q.name, FALSE, <<>>)
      Generated(g) ==
        IF g.hang \/ g.exc THEN g
        ELSE Processed(processGeneratorResponse(g, response, q.name,
                                                getCacheName(q.name)))
  IN Generated(IF q.rendered = 0 /\ CountStars(q.generate) = 0
               THEN generateSimple([s EXCEPT !.runs[k].toRender = @ + 1], i,
                                   q.name, q.generate)
               ELSE s)

\* pages.forEach of the batch callback (api.ts 842-863)
RECURSIVE BatchLoop(_, _, _)

\* the batch loop rendering every entry at the target as written
BatchLoop_Literal(w, i, pages) ==
  IF pages = <<>> \/ w.hang THEN w
  ELSE LET q == w.reqs[i]
           c == [w EXCEPT !.reqs[i].rendered = @ + 1]
       IN BatchLoop(RenderAndCheck(c, i, q.name, q.generate), i, Tail(pages))

BatchLoop(w, i, pages) ==
  IF pages = <<>> \/ w.hang \/ w.exc THEN w
  ELSE IF getGlobalDataAccessProxy(w, w.reqs[i].name).exc THEN Throw(w)
  ELSE LET q == w.reqs[i]
           starReplacedPath == ReplaceFirstStar(q.generate, Head(pages))
           c == [w EXCEPT !.reqs[i].rendered = @ + 1]
       IN BatchLoop(RenderAndCheck(c, i, q.name, starReplacedPath), i, Tail(pages))

\* the batch callback accepting one page on a target without a wildcard
generatePagesCallback_AcceptsSingle(w, i, pages) ==
  LET q == w.reqs[i]
      pathStars == CountStars(q.generate)
      refused == [w EXCEPT !.reqs[i].refused = @ + 1]
  IN IF pathStars > 1 THEN Throw(refused)
     ELSE IF pathStars = 0 /\ Len(pages) # 1 THEN Throw(refused)
     ELSE IF Len(pages) = 0 THEN w
     ELSE BatchLoop([w EXCEPT !.runs[q.run].toRender = @ + Len(pages),
                              !.reqs[i].batch = @ \o pages], i, pages)

\* generatePages(response): the batch callback handed to the script; pages
\* is the list of path fragments requested; reqs[i].refused counts the calls
\* it answered with a validation error
generatePagesCallback(w, i, pages) ==
  LET q == w.reqs[i]
      pathStars == CountStars(q.generate)
      refused == [w EXCEPT !.reqs[i].refused = @ + 1]
  IN IF pathStars > 1 THEN Throw(refused)
     ELSE IF pathStars = 0 THEN Throw(refused)
     ELSE IF Len(pages) = 0 THEN w
     ELSE BatchLoop([w EXCEPT !.runs[q.run].toRender = @ + Len(pages),
                              !.reqs[i].batch = @ \o pages], i, pages)

\* Templer.chalkUpError(name, error): error is "Error" for an Error object
\* or a string, "undefined" when the script passed nothing
chalkUpError(w, name, error) == IF error = "undefined" THEN Throw(w) ELSE w

\* generateError(error): the reject callback handed to the script
generateError(w, i, error) ==
  LET q == w.reqs[i]
      s == [w EXCEPT !.reqs[i].pinger = FALSE]
      c == chalkUpError(s, q.name, error)
  IN IF c.exc THEN c ELSE checkDone(c, q.run, q.name, FALSE, <<>>)

\* a watchdog that gives up on the script and fails the request
pingerCallback_ForceFail(w, i) == generateError(CountError(w), i, "Error")

\* the callback of the pinger of request i (api.ts 759-761): it logs that
\* the script has not called resolve yet
pingerCallback(w, i) == w

----------------------------------------------------------------------------
(* Content store *)

RECURSIVE JoinSlash(_)
JoinSlash(segs) ==
  IF segs = <<>> THEN ""
  ELSE IF Len(segs) = 1 THEN segs[1]
  ELSE segs[1] \o "/" \o JoinSlash(Tail(segs))

\* Templer.testTemplate: a file is [dir, name, ext], its path below the
\* input directory as fspath.parse splits it; "" stands for undefined
testTemplate(file) ==
  IF file.ext = ".ejs" THEN JoinSlash(Append(file.dir, file.name)) ELSE ""

WordChars == {"a", "b", "c", "g", "l", "p", "s", "t", "w", "x", "-", "_"}

\* SCRIPT_GENERATE_USE_REGEX = /^"([\w-]+(\/([\w-]+))+)">$/ applied to the
\* text between the quotes: two or more non-empty words joined by slashes
MatchesUseRegex(ref) ==
  /\ \A i \in 1..Len(ref) : ref[i] \in WordChars \cup {"/"}
  /\ \E i \in 1..Len(ref) : ref[i] = "/"
  /\ ref[1] # "/" /\ ref[Len(ref)] # "/"
  /\ \A i \in 1..(Len(ref) - 1) : ~(ref[i] = "/" /\ ref[i + 1] = "/")

\* Templer.getGenerateScript; "" when the page has no operative script
getGenerateScript(st, name) ==
  IF Has(st.generateScripts, name) /\ st.generateScripts[name] # ""
  THEN st.generateScripts[name]
  ELSE IF Has(st.generateScriptRefs, name)
          /\ Has(st.generateScripts, st.generateScriptRefs[name])
       THEN st.generateScripts[st.generateScriptRefs[name]]
       ELSE ""

\* Templer.processScript(source, name): source is one script block
\* [tag, code, ref]; file gives fspath.parse(name)
processScript(w, source, name, file) ==
  IF source.tag = "generate"
  THEN [w EXCEPT !.state.generateScripts = Upd(@, name, source.code)]
  ELSE IF source.tag = "generate-use"
  THEN IF Len(source.ref) > 0 /\ MatchesUseRegex(source.ref)
       THEN markDependsOn(
              [w EXCEPT !.state.generateScriptRefs = Upd(@, name, Cat(source.ref))],
              name, Cat(source.ref))
       ELSE w
  ELSE IF source.tag = "entry"
  THEN [w EXCEPT !.state.entryScripts = Upd(@, name, source.code)]
  ELSE IF source.tag = "lib"
  THEN LET dir == Normalize(outputDir \o <<"js">> \o file.dir)
           m == IF dir \notin w.fsDirs THEN mkdirSyncSafe(w, dir) ELSE w
           p == Normalize(outputDir \o <<"js">> \o file.dir \o <<file.name \o ".js">>)
           l == [m EXCEPT !.state.outputData.lib =
                             Append(@, [source |-> name, path |-> p])]
       IN IF m.exc THEN Attempt(m, "lib", p)
          ELSE Attempt(writeFileSafe(l, p), "lib", p)
  ELSE w

RECURSIVE ProcessScripts(_, _, _, _)
ProcessScripts(w, blocks, name, file) ==
  IF blocks = <<>> \/ w.exc THEN w
  ELSE ProcessScripts(processScript(w, Head(blocks), name, file), Tail(blocks),
                      name, file)

\* Templer.compileTemplate: template is the compiled body, <<"#syntax">>
\* when ejs.compile rejects the source
compileTemplate(w, template, name) ==
  IF template = <<"#syntax">> THEN CountError(w)
  ELSE [w EXCEPT !.state.templates = Upd(@, name, template)]

\* the index of a page in the toGenerate object, 0 when it is not a key
QueueIndex(q, name) ==
  IF \E i \in 1..Len(q) : q[i].name = name
  THEN CHOOSE i \in 1..Len(q) : q[i].name = name
  ELSE 0

\* a delete that leaves the queue as it is
Unqueue_Keep(q, name) == q

\* delete this.state.toGenerate[name]
Unqueue(q, name) ==
  IF QueueIndex(q, name) = 0 THEN q ELSE RemoveAt(q, QueueIndex(q, name))

\* Templer.cueGeneration(name, triggeredBy, reason)
cueGeneration(w, name, triggeredBy, reason) ==
  IF ~Has(w.state.frontMatter, name) THEN Throw(w)
  ELSE LET generate == w.state.frontMatter[name].generate
           q == w.state.toGenerate
           d == [name |-> name, generate |-> generate,
                 triggeredBy |-> triggeredBy, reason |-> reason]
           i == QueueIndex(q, name)
       IN IF generate = <<>> THEN w
          ELSE [w EXCEPT !.state.toGenerate =
                           IF i = 0 THEN Append(q, d) ELSE [q EXCEPT ![i] = d]]

\* the fs.readFile callback of processTemplateFilesPromise (api.ts 1219-1249)
\* for one file whose content is src = [attributes, scripts, template]
ReadFileCallback(w, file, src) ==
  LET name == testTemplate(file)
      Scripted(p) ==
        IF p.exc THEN p
        ELSE cueGeneration(compileTemplate(p, src.template, name), name, "",
                           "Modified")
  IN Scripted(ProcessScripts(
                [w EXCEPT !.state.frontMatter = Upd(@, name, src.attributes)],
                src.scripts, name, file))

\* a removal that reports a page it does not know as an error
processDeletedTemplatePromise_KnownOnly(w, template) ==
  IF ~Has(w.state.frontMatter, template) THEN Throw(CountError(w))
  ELSE [w EXCEPT
          !.state.generateScripts = Del(@, template),
          !.state.generateScriptRefs = Del(@, template),
          !.state.entryScripts = Del(@, template),
          !.state.pathDepTree = [key \in DOMAIN @ |-> @[key] \ {template}],
          !.state.wildDepTree =
             [i \in 1..Len(@) |-> [@[i] EXCEPT !.deps = @ \ {template}]],
          !.state.globalDeps = @ \ {template},
          !.state.frontMatter = Del(@, template),
          !.state.toGenerate = Unqueue(@, template),
          !.state.cache = Del(@, getCacheName(template)),
          !.state.outputData.outData = Del(@, template)]

\* Templer.processDeletedTemplatePromise(template)
processDeletedTemplatePromise(w, template) ==
  [Detached(w) EXCEPT
     !.state.generateScripts = Del(@, template),
     !.state.generateScriptRefs = Del(@, template),
     !.state.entryScripts = Del(@, template),
     !.state.pathDepTree = [key \in DOMAIN @ |-> @[key] \ {template}],
     !.state.wildDepTree = [i \in 1..Len(@) |-> [@[i] EXCEPT !.deps = @ \ {template}]],
     !.state.globalDeps = @ \ {template},
     !.state.frontMatter = Del(@, template),
     !.state.toGenerate = Unqueue(@, template),
     !.state.cache = Del(@, getCacheName(template)),
     !.state.outputData.outData = Del(@, template)]

----------------------------------------------------------------------------
(* Dependency lookup *)

\* micromatch.isMatch(path, "**/" + pattern) on segment lists: the pattern
\* matches a suffix of the path, "*" standing for any one segment
GlobMatch(path, pattern) ==
  /\ Len(pattern) <= Len(path)
  /\ \A i \in 1..Len(pattern) :
        LET seg == path[Len(path) - Len(pattern) + i]
        IN pattern[i] = "*" \/ pattern[i] = seg

\* getDataDeps asking the patterns before the exact key
getDataDeps_PatternsFirst(st, path) ==
  LET hits == {i \in 1..Len(st.wildDepTree) : GlobMatch(path, st.wildDepTree[i].key)}
  IN IF hits # {}
     THEN LET first == CHOOSE i \in hits : \A j \in hits : i <= j
          IN [found |-> TRUE, deps |-> st.wildDepTree[first].deps]
     ELSE IF Has(st.pathDepTree, path)
          THEN [found |-> TRUE, deps |-> st.pathDepTree[path]]
          ELSE [found |-> FALSE, deps |-> {}]

\* Templer.getDataDeps(path): [found, deps]; found is FALSE where the code
\* returns undefined
getDataDeps(st, path) ==
  IF Has(st.pathDepTree, path)
  THEN [found |-> TRUE, deps |-> st.pathDepTree[path]]
  ELSE LET hits == {i \in 1..Len(st.wildDepTree) :
                       GlobMatch(path, st.wildDepTree[i].key)}
       IN IF hits = {} THEN [found |-> FALSE, deps |-> {}]
          ELSE LET first == CHOOSE i \in hits : \A j \in hits : i <= j
               IN [found |-> TRUE, deps |-> st.wildDepTree[first].deps]

\* Templer.getTemplateDeps(templateName)
getTemplateDeps(st, templateName) ==
  (IF Has(st.templateDepTree, templateName)
   THEN st.templateDepTree[templateName] ELSE {}) \cup {templateName}

\* Templer.getGlobalDeps
getGlobalDeps(st) == st.globalDeps

----------------------------------------------------------------------------
(* Scripts.  What a generate script does is not the engine's choice: a     *)
(* script is a sequence of calls of the callbacks it was handed, the first *)
(* ones inside its synchronous body, the others from later turns of the    *)
(* event loop.  An op is [k, pages, resp, err] with k one of "generate",   *)
(* "resolve", "reject", or "throw" (the body itself throws).  A script     *)
(* does not catch what a callback throws at it: inside the body the        *)
(* exception reaches the engine's try/catch (api.ts 946), in a later turn  *)
(* it is lost to the engine.                                                *)

NoResponse ==
  [defined |-> FALSE, cache |-> <<>>, outData |-> <<>>, siteFiles |-> <<>>,
   watchFiles |-> <<>>, watchGlobs |-> <<>>, global |-> <<>>]

Response(siteFiles, watchFiles, watchGlobs) ==
  [defined |-> TRUE, cache |-> <<>>, outData |-> <<>>, siteFiles |-> siteFiles,
   watchFiles |-> watchFiles, watchGlobs |-> watchGlobs, global |-> <<>>]

\* a response that only replaces the cache group
CacheResponse(cacheGroup) ==
  [Response(<<>>, <<>>, <<>>) EXCEPT !.cache = <<cacheGroup>>]

\* the response of a pre-generate hook: the new global data
GlobalResponse(data) == [Response(<<>>, <<>>, <<>>) EXCEPT !.global = <<data>>]

OpGenerate(pages) ==
  [k |-> "generate", pages |-> pages, resp |-> NoResponse, err |-> "", key |-> "", val |-> 0]

OpResolve(resp) ==
  [k |-> "resolve", pages |-> <<>>, resp |-> resp, err |-> "", key |-> "", val |-> 0]

OpReject(err) ==
  [k |-> "reject", pages |-> <<>>, resp |-> NoResponse, err |-> err, key |-> "", val |-> 0]

OpThrow ==
  [k |-> "throw", pages |-> <<>>, resp |-> NoResponse, err |-> "Error", key |-> "", val |-> 0]

\* the script reads inputs.global[key]
OpRead(key) ==
  [k |-> "read", pages |-> <<>>, resp |-> NoResponse, err |-> "", key |-> key, val |-> 0]

\* the script assigns inputs.global[key] = val
OpWrite(key, val) ==
  [k |-> "write", pages |-> <<>>, resp |-> NoResponse, err |-> "", key |-> key,
   val |-> val]

\* inputs.global[key] = val by the script of request i: the proxy has no
\* set trap (api.ts 342-353), so the assignment lands on the object the
\* proxy was made for, which is the store while state.globalData still
\* refers to that object, and which every proxy made for it reads
WriteGlobal(w, i, key, val) ==
  LET o == w.reqs[i].proxy
      g == w.state.globalData
  IN [w EXCEPT !.state.globalData =
                 IF g.defined /\ g.obj = o
                 THEN [g EXCEPT !.data = Upd(@, key, val)] ELSE g,
               !.reqs = [j \in 1..Len(w.reqs) |->
                           IF w.reqs[j].script /\ w.reqs[j].proxy = o
                           THEN [w.reqs[j] EXCEPT !.target = Upd(@, key, val)]
                           ELSE w.reqs[j]]]

\* the script assigns cache[key] = {..}, an item without expires, in place
OpCacheAdd(key) ==
  [k |-> "cache", pages |-> <<>>, resp |-> NoResponse, err |-> "", key |-> key,
   val |-> 0]

\* cache[key] = {..} by the script of request i (api.ts 932-945: the script
\* is handed the cache group itself): the item lands in the cache group of
\* the engine while that group is still the object handed over;
\* reqs[i].added holds the keys the script has added
AddCache(w, i, key) ==
  LET cacheName == getCacheName(w.reqs[i].name)
      item == [name |-> key, expires |-> [kind |-> "undefined", num |-> 0]]
      Set(group) ==
        IF \E j \in 1..Len(group) : group[j].name = key
        THEN [j \in 1..Len(group) |-> IF group[j].name = key THEN item ELSE group[j]]
        ELSE Append(group, item)
      a == [w EXCEPT !.reqs[i].added = @ \cup {key}]
  IN IF w.reqs[i].live
     THEN [a EXCEPT !.state.cache[cacheName] = Set(@)]
     ELSE a

\* a read of the global data by the script of request i; reqs[i].reads
\* lists the reads: the key, whether the store held it and with what value,
\* whether the accessor threw, the value it returned, and whether the page
\* was among the global-data dependents before and after the read
ReadGlobal(w, i, key) ==
  LET g == w.state.globalData
      name == w.reqs[i].name
      present == g.defined /\ Has(g.data, key)
      Read(r) ==
        [r EXCEPT !.reqs[i].reads =
                    Append(@, [key |-> key, present |-> present,
                               stored |-> IF present THEN <<g.data[key]>> ELSE <<>>,
                               threw |-> r.exc,
                               value |-> IF r.exc THEN <<>> ELSE r.ret,
                               before |-> name \in w.state.globalDeps,
                               after |-> name \in r.state.globalDeps])]
  IN Read(GlobalGet(w, name, w.reqs[i].target, key))

\* one callback invocation by the script of request i
ApplyOp(w, i, op) ==
  LET h == [w EXCEPT !.reqs[i].ops = @ + 1,
                     !.reqs[i].nResolve = IF op.k = "resolve" THEN @ + 1 ELSE @,
                     !.reqs[i].nReject = IF op.k = "reject" THEN @ + 1 ELSE @,
                     !.reqs[i].nGenerate = IF op.k = "generate" THEN @ + 1 ELSE @,
                     !.reqs[i].asked = @ \o op.pages]
  IN IF op.k = "generate" THEN generatePagesCallback(h, i, op.pages)
     ELSE IF op.k = "resolve" THEN generateDone(h, i, op.resp)
     ELSE IF op.k = "read" THEN ReadGlobal(h, i, op.key)
     ELSE IF op.k = "write" THEN WriteGlobal(h, i, op.key, op.val)
     ELSE IF op.k = "cache" THEN AddCache(h, i, op.key)
     ELSE generateError(h, i, op.err)

\* catch (error) of the script invocation (api.ts 946-954)
CatchScriptError(w, i) == generateError(CountError(Caught(w)), i, "Error")

\* vm.runInThisContext(code)(...) inside its try block: the synchronous body.
\* reqs[i].nThrow counts the bodies that threw themselves or were ended by
\* an exception of the global accessor, reqs[i].nAbort the bodies ended by
\* an exception of the batch callback
RECURSIVE RunSync(_, _, _)
RunSync(w, i, body) ==
  IF body = <<>> \/ w.hang THEN w
  ELSE IF Head(body).k = "throw"
       THEN CatchScriptError([w EXCEPT !.reqs[i].nThrow = @ + 1], i)
       ELSE LET Called(a) ==
                  IF a.exc
                  THEN CatchScriptError(
                         [a EXCEPT !.reqs[i].nAbort =
                                      IF Head(body).k = "generate" THEN @ + 1 ELSE @,
                                   !.reqs[i].nThrow =
                                      IF Head(body).k = "read" THEN @ + 1 ELSE @],
                         i)
                  ELSE RunSync(a, i, Tail(body))
            IN Called(ApplyOp(w, i, Head(body)))

\* the record of a request; triggeredBy is inputs.triggeredBy as the loop
\* builds it from the queue entry (api.ts 876-897), <<>> for undefined
NewRequest(k, d, script) ==
  [run |-> k, name |-> d.name, generate |-> d.generate, script |-> script,
   rendered |-> 0, pinger |-> script, ops |-> 0, nResolve |-> 0, nReject |-> 0,
   nGenerate |-> 0, nThrow |-> 0, nAbort |-> 0, refused |-> 0, asked |-> <<>>,
   batch |-> <<>>, renders |-> <<>>, htmls |-> <<>>, entries |-> <<>>,
   errors |-> 0,
   target |-> <<>>, proxy |-> 0, cache |-> <<>>, at |-> 0, reads |-> <<>>,
   live |-> FALSE, added |-> {},
   triggeredBy |-> IF d.triggeredBy # ""
                   THEN <<[path |-> d.triggeredBy, reason |-> d.reason]>>
                   ELSE <<>>]

\* one iteration of toGenerate.forEach (api.ts 753-958) in run k; an
\* exception that leaves it ends the loop and rejects the promise of the
\* run.  reqs[i].target is the store the proxy of the inputs was made for,
\* reqs[i].proxy which object that store is, reqs[i].cache the cache group
\* as it was handed to the script, at time reqs[i].at
DispatchRequest(w, k, body) ==
  LET d == w.runs[k].list[w.runs[k].idx]
      i == Len(w.reqs) + 1
      script == getGenerateScript(w.state, d.name) # ""
      n == [w EXCEPT !.state.toGenerate = Unqueue(@, d.name),
                     !.runs[k].idx = @ + 1,
                     !.reqs = Append(@, NewRequest(k, d, script))]
      c == IF Has(n.state.cache, getCacheName(d.name)) THEN n
           ELSE [n EXCEPT !.state.cache = Upd(@, getCacheName(d.name), <<>>)]
      Run(x) ==
        IF x.exc THEN x
        ELSE RunSync([x EXCEPT !.reqs[i].cache = x.state.cache[getCacheName(d.name)],
                               !.reqs[i].live = TRUE,
                               !.reqs[i].at = now],
                     i, body)
      Aborted(x) ==
        IF x.exc
        THEN [Caught(x) EXCEPT !.runs[k].rejected = TRUE,
                               !.runs[k].idx = Len(w.runs[k].list) + 1]
        ELSE x
      Done(r) ==
        [r EXCEPT !.reqs[i].errors = r.state.errorCount - w.state.errorCount]
  IN Done(Aborted(
       IF script
       THEN IF getGlobalDataAccessProxy(c, d.name).exc THEN Throw(c)
            ELSE Run(expireCache([c EXCEPT !.reqs[i].target = c.state.globalData.data,
                                          !.reqs[i].proxy = c.state.globalData.obj],
                                 now))
       ELSE IF d.generate # <<>> THEN generateSimple(n, i, d.name, d.generate)
       ELSE n))

\* a callback invoked from a later turn of the event loop
LaterCall(w, i, op) ==
  LET Done(a) ==
        [a EXCEPT !.reqs[i].errors = @ + a.state.errorCount - w.state.errorCount]
  IN Done(Caught(ApplyOp(w, i, op)))

----------------------------------------------------------------------------
(* The pre-generate and post-generate hooks.  hooks[j] holds one           *)
(* invocation: its kind ("pre" or "post"), the cache group handed to the   *)
(* script and the time it was handed over, the calls the script made, and  *)
(* how the promise of the invocation was settled ("" while it is pending); *)
(* hooks[j].run is the run whose promise chain started the invocation, 0   *)
(* for none.                                                                *)

HookJs(kind) == IF kind = "pre" THEN "preGenerate.js" ELSE "postGenerate.js"

HookName(kind) == IF kind = "pre" THEN "PRE_GENERATE" ELSE "POST_GENERATE"

\* resolve() or reject(error) of the promise of the invocation
Settle(w, j, how) ==
  IF w.hooks[j].settled = "" THEN [w EXCEPT !.hooks[j].settled = how] ELSE w

\* generateSuccess(response) of processPreGenerate (api.ts 1276-1285) and of
\* processPostGenerate (api.ts 1338-1346)
generateSuccess(w, j, response) ==
  LET kind == w.hooks[j].kind
      Processed(p) == IF p.exc THEN p ELSE Settle(p, j, "resolved")
      Stored(g) ==
        IF g.exc THEN g
        ELSE Processed(processGeneratorResponse(g, response, HookJs(kind),
                                                getCacheName(HookName(kind))))
  IN Stored(IF kind # "pre" THEN w
            ELSE IF ~response.defined THEN Throw(w)
            ELSE [w EXCEPT !.state.globalData =
                             IF response.global = <<>>
                             THEN [defined |-> FALSE, data |-> <<>>,
                                   obj |-> w.state.globalData.obj + 1]
                             ELSE [defined |-> TRUE, data |-> response.global[1],
                                   obj |-> w.state.globalData.obj + 1]])

\* generateError(error) of processPreGenerate (api.ts 1287-1291) and of
\* processPostGenerate (api.ts 1347-1352)
HookError(w, j, error) ==
  LET kind == w.hooks[j].kind
      Chalked(c) == IF c.exc THEN c ELSE Settle(c, j, "rejected")
  IN Chalked(chalkUpError(IF kind = "post" THEN CountError(w) ELSE w,
                          HookName(kind), error))

\* one callback invocation by the script of hook invocation j
ApplyHookOp(w, j, op) ==
  LET h == [w EXCEPT !.hooks[j].nResolve = IF op.k = "resolve" THEN @ + 1 ELSE @,
                     !.hooks[j].nReject = IF op.k = "reject" THEN @ + 1 ELSE @]
  IN IF op.k = "resolve" THEN generateSuccess(h, j, op.resp)
     ELSE HookError(h, j, op.err)

\* catch (error) of the hook invocation (api.ts 1309-1313, 1371-1375)
CatchHookError(w, j) == Settle(CountError(Caught(w)), j, "rejected")

\* vm.runInThisContext(code)(...) of a hook inside its try block
RECURSIVE HookSync(_, _, _)
HookSync(w, j, body) ==
  IF body = <<>> THEN w
  ELSE IF Head(body).k = "throw"
       THEN CatchHookError([w EXCEPT !.hooks[j].nThrow = @ + 1], j)
       ELSE LET Called(a) ==
                  IF a.exc THEN CatchHookError(a, j) ELSE HookSync(a, j, Tail(body))
            IN Called(ApplyHookOp(w, j, Head(body)))

\* Templer.processPreGenerate / Templer.processPostGenerate when the hook
\* script exists
processHook(w, kind, body) ==
  LET cacheName == getCacheName(HookName(kind))
      j == Len(w.hooks) + 1
      c == IF Has(w.state.cache, cacheName) THEN w
           ELSE [w EXCEPT !.state.cache = Upd(@, cacheName, <<>>)]
      n == [c EXCEPT !.hooks =
                       Append(@, [kind |-> kind, cache |-> c.state.cache[cacheName],
                                  at |-> now, nResolve |-> 0, nReject |-> 0,
                                  nThrow |-> 0, settled |-> "", run |-> 0])]
  IN HookSync(n, j, body)

----------------------------------------------------------------------------
(* The watcher of cli.ts.  watch.deps is the variable deps, the pages      *)
(* collected for the next update; watch.armed tells whether the pinger is  *)
(* running; watch.reading holds the template files whose read is pending;  *)
(* watch.updates lists the calls of updateDeps (by "window" for the pinger *)
(* callback, by "data" for a data file notification) with the run each     *)
(* started, 0 for none; watch.waiting holds the runs whose end the pinger  *)
(* callback waits for; watch.build is the step the promise chain of the    *)
(* first build (cli.ts 189-205) has reached; watch.lookups lists what      *)
(* getDataDeps answered for the data files reported; watch.hooking holds   *)
(* the invocations of the pre-generate hook that a notification started    *)
(* and whose promise is pending; watch.exited is the                       *)
(* variable _exited, watch.once holds the events whose process.once        *)
(* listener is still registered, watch.events lists the events whose       *)
(* listener was invoked, watch.stored lists the invocations of storeCache  *)
(* (during which event, with what cache, whether the file was written),    *)
(* and watch.ended holds the exit code once the process has ended.  The    *)
(* pinger is the Pinger of @danglingdev/shared-ts:                         *)
(* restart() starts its interval anew, stop() ends it, and it calls back   *)
(* when the interval has elapsed.                                           *)

NoWatch ==
  [deps |-> {}, armed |-> FALSE, reading |-> <<>>, updates |-> <<>>, waiting |-> {},
   build |-> "start", lookups |-> <<>>, hooking |-> {},
   exited |-> FALSE, once |-> {"exit", "SIGINT", "SIGTERM"}, events |-> <<>>,
   stored |-> <<>>, ended |-> <<>>]

\* for (const pageName in dependencies) me.cueGeneration(..) (api.ts
\* 1396-1400)
RECURSIVE CueAll(_, _, _, _)
CueAll(w, dependencies, dependency, reason) ==
  IF dependencies = {} \/ w.exc THEN w
  ELSE LET pageName == CHOOSE x \in dependencies : TRUE
       IN CueAll(cueGeneration(w, pageName, dependency, reason),
                 dependencies \ {pageName}, dependency, reason)

\* Templer.generatePages up to the forEach loop, called by updateDeps
NewRun(w) ==
  LET list == w.state.toGenerate
      n == Len(list)
  IN [w EXCEPT !.runs = Append(@, [toRender |-> n, list |-> list, idx |-> 1,
                                   resolved |-> IF n = 0 THEN 1 ELSE 0,
                                   rejected |-> FALSE])]

\* Templer.updateDeps(dependencies, dependency, reason), called by the
\* watcher; without anything queued its promise is never settled
updateDeps(w, dependencies, dependency, reason, by) ==
  LET Logged(x, run, rejected) ==
        [x EXCEPT !.watch.updates =
                    Append(@, [by |-> by, dependencies |-> dependencies,
                               run |-> run, rejected |-> rejected])]
      Cued(c) ==
        IF c.exc THEN Logged(c, 0, TRUE)
        ELSE IF c.state.toGenerate = <<>> THEN Logged(c, 0, FALSE)
        ELSE Logged(NewRun(c), Len(c.runs) + 1, FALSE)
  IN Cued(CueAll(w, dependencies, dependency, reason))

\* the handlers of the promise of processPreGenerate in queueChange (cli.ts
\* 278-284), run once invocation j of the hook has settled
PreGenerateThen(w, j) ==
  IF j \notin w.watch.hooking \/ w.hooks[j].settled = "" THEN w
  ELSE IF w.hooks[j].settled = "resolved"
  THEN [w EXCEPT !.watch.hooking = @ \ {j},
                 !.watch.deps = @ \cup getGlobalDeps(w.state)]
  ELSE [w EXCEPT !.watch.hooking = @ \ {j}]

\* what a notification about preGenerate.js finds: no file, a script that
\* returns without having called resolve, a script that calls resolve
PreChanges ==
  {[exists |-> FALSE, body |-> <<>>], [exists |-> TRUE, body |-> <<>>],
   [exists |-> TRUE, body |-> <<OpResolve(GlobalResponse(<<>>))>>]}

\* the input directory (cli.ts 80)
inputDir == <<"airfry", "input">>

\* Templer.getTemplateFileName(file) (api.ts 281-284): the path of a file
\* of the input directory
getTemplateFileName(file) ==
  JoinSlash(inputDir \o file.dir \o <<file.name \o file.ext>>)

\* queueChange(p, reason) of cli.ts (270-332); what is the hook script, the
\* template source, the removed template file or the data path the
\* notification is about
queueChange(w, kind, what, reason) ==
  LET r == [w EXCEPT !.watch.armed = TRUE]
      j == Len(w.hooks) + 1
  IN IF kind = "pre"
     THEN IF ~what.exists
          THEN [r EXCEPT !.watch.deps = @ \cup getGlobalDeps(r.state)]
          ELSE PreGenerateThen([processHook(r, "pre", what.body)
                                  EXCEPT !.watch.hooking = @ \cup {j}], j)
     ELSE IF kind = "template"
     THEN [r EXCEPT !.watch.reading = Append(@, what)]
     ELSE IF kind = "deleted"
     THEN processDeletedTemplatePromise(r, getTemplateFileName(what))
     ELSE LET path == Normalize(Split(what))
              dataDeps == getDataDeps(r.state, path)
              l == [r EXCEPT !.watch.lookups =
                                Append(@, [path |-> path, found |-> dataDeps.found,
                                           deps |-> dataDeps.deps, event |-> ""])]
          IN Caught(updateDeps(l, dataDeps.deps, JoinSlash(path), reason, "data"))

\* the reason each handler of the watcher passes to queueChange (cli.ts
\* 334-346)
WatcherReason(event) ==
  IF event = "add" THEN "Added"
  ELSE IF event = "change" THEN "Added"
  ELSE "Deleted"

\* the handlers of the watcher (cli.ts 334-346); the lookup of a data file
\* is listed with the event that was reported
OnWatch(w, kind, what, event) ==
  LET q == queueChange(w, kind, what, WatcherReason(event))
  IN IF kind = "data"
     THEN [q EXCEPT !.watch.lookups[Len(q.watch.lookups)].event = event]
     ELSE q

\* the .then of processTemplateFilesPromise in queueChange (cli.ts 307-314)
\* after the fs.readFile callback of the template
TemplateRead(w) ==
  LET f == Head(w.watch.reading)
      Updated(u) ==
        IF u.exc THEN Caught(u)
        ELSE [u EXCEPT !.watch.deps =
                         @ \cup getTemplateDeps(u.state, testTemplate(f.file))]
  IN Updated(ReadFileCallback([w EXCEPT !.watch.reading = Tail(@)], f.file, f.src))

\* .finally of the pinger callback (cli.ts 360-368)
UpdateSettled(w) == [w EXCEPT !.watch.deps = {}, !.watch.armed = TRUE]

\* the pinger callback (cli.ts 350-369)
PingerCallback(w) ==
  LET Updating(u) ==
        LET call == u.watch.updates[Len(u.watch.updates)]
        IN IF u.exc THEN UpdateSettled(Caught(u))
           ELSE IF call.run = 0 THEN u
           ELSE [u EXCEPT !.watch.waiting = @ \cup {call.run}]
  IN Updating(updateDeps([w EXCEPT !.watch.armed = FALSE], w.watch.deps, "",
                         "Modified", "window"))

----------------------------------------------------------------------------
(* Actions *)

LoopIdle == \A k \in 1..Len(runs) : runs[k].idx > Len(runs[k].list)

\* the fs.readFile callback of a scan delivers the content of one source
ScanFile(catalogue) ==
  \E f \in catalogue :
    /\ ~hung /\ LoopIdle
    /\ steps < MaxSteps
    /\ Put(Caught(ReadFileCallback(World, f.file, f.src)))
    /\ steps' = steps + 1
    /\ last' = [op |-> "scan", page |-> testTemplate(f.file)]
    /\ now' = now

\* Templer.generatePages up to the forEach loop (api.ts 710-736)
GeneratePages ==
  /\ ~hung /\ LoopIdle
  /\ steps < MaxSteps
  /\ LET list == state.toGenerate
         n == Len(list)
     IN runs' = Append(runs, [toRender |-> n, list |-> list, idx |-> 1,
                              resolved |-> IF n = 0 THEN 1 ELSE 0,
                              rejected |-> FALSE])
  /\ last' = [op |-> "generatePages", page |-> ""]
  /\ steps' = steps + 1
  /\ UNCHANGED <<state, fsDirs, fsMade, fsFiles, attempts, reqs, hooks, watch, hung,
                 now>>

\* the next iteration of the forEach loop, the script's synchronous body
\* included
Dispatch(ops) ==
  \E k \in 1..Len(runs) :
    /\ ~hung
    /\ runs[k].idx <= Len(runs[k].list)
    /\ LET d == runs[k].list[runs[k].idx]
       IN \E n \in 0..MaxSyncOps : \E body \in [1..n -> ops] :
            /\ n > 0 => getGenerateScript(state, d.name) # ""
            /\ steps + n <= MaxSteps
            /\ \A j \in 1..n : body[j].k = "throw" => j = n
            /\ Put(DispatchRequest(World, k, body))
            /\ steps' = steps + n
            /\ last' = [op |-> "dispatch", page |-> d.name]
    /\ now' = now

\* a script calls one of its callbacks from a later turn of the event loop
ScriptCall(ops) ==
  \E i \in 1..Len(reqs) : \E op \in ops :
    /\ ~hung /\ LoopIdle
    /\ reqs[i].script
    /\ op.k # "throw"
    /\ steps < MaxSteps
    /\ Put(LaterCall(World, i, op))
    /\ steps' = steps + 1
    /\ last' = [op |-> op.k, page |-> reqs[i].name]
    /\ now' = now

\* the watcher reports a template as removed
DeleteTemplate(names) ==
  \E template \in names :
    /\ ~hung /\ LoopIdle
    /\ steps < MaxSteps
    /\ Put(processDeletedTemplatePromise(World, template))
    /\ steps' = steps + 1
    /\ last' = [op |-> "delete", page |-> template]
    /\ now' = now

\* the pre-generate hook is run (cli.ts 191-192, 276-278), or the
\* post-generate hook after a run has resolved (cli.ts 201-203; api.ts 1406)
RunHook(ops) ==
  \E kind \in {"pre", "post"} : \E n \in 0..1 : \E body \in [1..n -> ops] :
    /\ ~hung /\ LoopIdle
    /\ steps < MaxSteps
    /\ kind = "post" => runs # <<>> /\ runs[Len(runs)].resolved >= 1
    /\ \A m \in 1..n : body[m].k \in {"resolve", "reject", "throw"}
    /\ Put(processHook(World, kind, body))
    /\ steps' = steps + 1
    /\ last' = [op |-> "hook", page |-> HookName(kind)]
    /\ now' = now

\* a hook script calls resolve or reject from a later turn of the event
\* loop; the handlers of the promise run right after
HookCall(ops) ==
  \E j \in 1..Len(hooks) : \E op \in ops :
    /\ ~hung /\ LoopIdle
    /\ steps < MaxSteps
    /\ op.k \in {"resolve", "reject"}
    /\ Put(PreGenerateThen(Caught(ApplyHookOp(World, j, op)), j))
    /\ steps' = steps + 1
    /\ last' = [op |-> op.k, page |-> HookName(hooks[j].kind)]
    /\ now' = now

\* the watcher reports a change: of preGenerate.js, of a template (added,
\* modified or removed) or of a data file; it runs once the first build is
\* over (cli.ts 205-223)
NotifyOf(catalogue, names, paths, events) ==
  \E kind \in {"pre", "template", "deleted", "data"} :
    \E what \in (IF kind = "pre" THEN PreChanges
                 ELSE IF kind = "template" THEN catalogue
                 ELSE IF kind = "deleted" THEN names
                 ELSE paths) :
      \E event \in (IF kind = "deleted" THEN {"unlink"}
                    ELSE IF kind = "data" THEN events
                    ELSE {"change"}) :
        /\ ~hung /\ LoopIdle
        /\ runs # <<>> /\ runs[1].resolved >= 1
        /\ steps < MaxSteps
        /\ Put(OnWatch(World, kind, what, event))
        /\ steps' = steps + 1
        /\ last' = [op |-> "notify", page |-> kind]
        /\ now' = now

\* the notifications in which every data file is reported as changed
Notify(catalogue, names, paths) == NotifyOf(catalogue, names, paths, {"change"})

\* the read of a changed template completes
ReadDone ==
  /\ ~hung /\ LoopIdle
  /\ watch.reading # <<>>
  /\ Put(TemplateRead(World))
  /\ last' = [op |-> "scan", page |-> testTemplate(Head(watch.reading).file)]
  /\ UNCHANGED <<steps, now>>

\* the pinger fires: the window since the last restart has elapsed
WindowElapsed ==
  /\ ~hung /\ LoopIdle
  /\ watch.armed
  /\ steps < MaxSteps
  /\ Put(PingerCallback(World))
  /\ steps' = steps + 1
  /\ last' = [op |-> "window", page |-> ""]
  /\ now' = now

\* the run started by the pinger callback has ended: .finally
FinishUpdate ==
  \E k \in watch.waiting :
    /\ ~hung /\ LoopIdle
    /\ runs[k].resolved >= 1 \/ runs[k].rejected
    /\ Put(UpdateSettled([World EXCEPT
              !.watch.waiting = @ \ {k},
              !.state.errorCount =
                 IF runs[k].resolved = 0 THEN @ + 1 ELSE @]))
    /\ last' = [op |-> "updated", page |-> ""]
    /\ UNCHANGED <<steps, now>>

\* step 1 of the first build (cli.ts 191-192): processPreGenerate, which
\* resolves at once when there is no preGenerate.js
BuildPre(ops) ==
  \E exists \in BOOLEAN : \E n \in 0..1 : \E body \in [1..n -> ops] :
    /\ ~hung
    /\ watch.build = "start"
    /\ steps + n <= MaxSteps
    /\ ~exists => n = 0
    /\ Put(IF exists
           THEN [processHook(World, "pre", body) EXCEPT !.watch.build = "pre"]
           ELSE [World EXCEPT !.watch.build = "scan"])
    /\ steps' = steps + n
    /\ last' = [op |-> "hook", page |-> HookName("pre")]
    /\ now' = now

\* the promise of processPreGenerate has resolved: step 2 begins (cli.ts
\* 193-196)
BuildPreDone ==
  /\ ~hung
  /\ watch.build = "pre"
  /\ hooks[1].settled = "resolved"
  /\ Put([World EXCEPT !.watch.build = "scan"])
  /\ last' = [op |-> "scanning", page |-> ""]
  /\ UNCHANGED <<steps, now>>

\* step 2 of the first build: the source files are read
BuildScan(catalogue) ==
  /\ watch.build = "scan"
  /\ ScanFile(catalogue)

\* step 3 of the first build (cli.ts 197-200): generatePages
BuildGenerate ==
  /\ ~hung
  /\ watch.build = "scan"
  /\ steps < MaxSteps
  /\ Put([NewRun(World) EXCEPT !.watch.build = "run"])
  /\ steps' = steps + 1
  /\ last' = [op |-> "generatePages", page |-> ""]
  /\ now' = now

\* .then(() => processPostGenerate()) of a run that has resolved: of the
\* first build (cli.ts 201-204) and of updateDeps (api.ts 1403-1407)
PostGenerate(ops) ==
  \E k \in 1..Len(runs) : \E n \in 0..1 : \E body \in [1..n -> ops] :
    /\ ~hung /\ LoopIdle
    /\ runs[k].resolved >= 1
    /\ \A j \in 1..Len(hooks) : hooks[j].run # k
    /\ steps + n <= MaxSteps
    /\ Put([processHook(World, "post", body) EXCEPT !.hooks[Len(hooks) + 1].run = k])
    /\ steps' = steps + n
    /\ last' = [op |-> "post", page |-> HookName("post")]
    /\ now' = now

\* the post-generate hook of the first build has resolved: the watcher is
\* set up (cli.ts 205-223)
BuildWatch ==
  /\ ~hung
  /\ watch.build = "run"
  /\ \E j \in 1..Len(hooks) : hooks[j].run = 1 /\ hooks[j].settled = "resolved"
  /\ Put([World EXCEPT !.watch.build = "watching"])
  /\ last' = [op |-> "watching", page |-> ""]
  /\ UNCHANGED <<steps, now>>

\* the watcher, once set up, reports a change
BuildNotify(paths) ==
  /\ watch.build = "watching"
  /\ Notify({}, {}, paths)

\* the pinger of a request fires: its interval has elapsed and stop() was
\* not called (the Pinger of @danglingdev/shared-ts runs from its
\* construction until stop())
WatchdogTick ==
  \E i \in 1..Len(reqs) :
    /\ ~hung /\ LoopIdle
    /\ reqs[i].pinger
    /\ steps < MaxSteps
    /\ Put(Caught(pingerCallback(World, i)))
    /\ steps' = steps + 1
    /\ last' = [op |-> "watchdog", page |-> reqs[i].name]
    /\ now' = now

\* the cache directory (cli.ts 84)
cacheDir == <<"airfry", "cache">>

\* Templer.storeCache (api.ts 323-334) during the event at position on of
\* watch.events; fails tells whether the file system refuses the write
storeCache(w, on, fails) ==
  LET file == cacheDir \o <<"cache.json">>
      Noted(wrote) ==
        [w EXCEPT !.watch.stored =
                    Append(@, [on |-> on, data |-> w.state.cache, wrote |-> wrote])]
      m == IF cacheDir \notin w.fsDirs
           THEN [Noted(TRUE) EXCEPT !.fsDirs = @ \cup Prefixes(cacheDir),
                                    !.fsMade = @ \cup {cacheDir}]
           ELSE Noted(TRUE)
  IN IF fails THEN Throw(Noted(FALSE))
     ELSE [m EXCEPT !.fsFiles = @ \cup {file}]

RECURSIVE onExit(_, _, _, _)

\* process.exit(code): the listeners of "exit" are called, then the process
\* ends; an exception a listener lets escape ends it as well
processExit(w, code, fails) ==
  LET e == [w EXCEPT !.watch.once = @ \ {"exit"},
                     !.watch.events = Append(@, "exit")]
      Ended(x) == [Caught(x) EXCEPT !.watch.ended = <<code>>]
  IN IF "exit" \in w.watch.once
     THEN Ended(onExit(e, FALSE, 0, fails))
     ELSE Ended(w)

\* onExit without the _exited flag
onExit_Unguarded(w, shouldExit, signal, fails) ==
  LET s == storeCache([w EXCEPT !.watch.exited = TRUE], Len(w.watch.events), fails)
  IN IF s.exc \/ ~shouldExit THEN s
     ELSE processExit(s, (128 + signal) % 256, fails)

\* onExit(shouldExit, signal) (cli.ts 172-179); the listener of "exit" is
\* called with the exit code, which is not true
onExit(w, shouldExit, signal, fails) ==
  IF w.watch.exited THEN w
  ELSE LET s == storeCache([w EXCEPT !.watch.exited = TRUE],
                           Len(w.watch.events), fails)
       IN IF s.exc \/ ~shouldExit THEN s
          ELSE processExit(s, (128 + signal) % 256, fails)

\* the process is sent an event: it ends by itself ("exit"), it receives a
\* signal, or its parent sends the message "shutdown" (cli.ts 180-187).  A
\* signal without a listener ends the process at once; an exception that
\* escapes a listener ends it with code 1, the listeners of "exit" called
emit(w, ev, fails) ==
  LET Signal == IF ev = "SIGINT" THEN 2 ELSE IF ev = "SIGTERM" THEN 15 ELSE -128
      e == [w EXCEPT !.watch.once = @ \ {ev}, !.watch.events = Append(@, ev)]
      Uncaught(x) == IF x.exc THEN processExit(Caught(x), 1, fails) ELSE x
  IN IF ev = "exit" THEN processExit(w, 0, fails)
     ELSE IF ev = "shutdown" \/ ev \in w.watch.once
     THEN Uncaught(onExit(e, TRUE, Signal, fails))
     ELSE [w EXCEPT !.watch.ended = <<128 + Signal>>]

\* the process has not ended
Alive == watch.ended = <<>>

\* an event reaches the process between two turns of the event loop
ProcessEvent ==
  \E ev \in {"exit", "SIGINT", "SIGTERM", "shutdown"} : \E fails \in BOOLEAN :
    /\ ~hung /\ LoopIdle /\ Alive
    /\ steps < MaxSteps
    /\ Put(emit(World, ev, fails))
    /\ steps' = steps + 1
    /\ last' = [op |-> "event", page |-> ev]
    /\ now' = now

\* time passes
Tick ==
  /\ ~hung
  /\ steps < MaxSteps
  /\ now' = now + 1
  /\ steps' = steps + 1
  /\ last' = [op |-> "tick", page |-> ""]
  /\ UNCHANGED <<state, fsDirs, fsMade, fsFiles, attempts, runs, reqs, hooks, watch,
                 hung>>

----------------------------------------------------------------------------
(* The state after construction (api.ts 194-231): nothing scanned, no      *)
(* cache file, only the working directory on disk.                          *)

Init ==
  /\ state = [generateScripts |-> <<>>, generateScriptRefs |-> <<>>,
              entryScripts |-> <<>>, templateDepTree |-> <<>>,
              pathDepTree |-> <<>>, wildDepTree |-> <<>>, globalDeps |-> {},
              frontMatter |-> <<>>, templates |-> <<>>, toGenerate |-> <<>>,
              globalData |-> [defined |-> TRUE, data |-> <<>>, obj |-> 0], cache |-> <<>>,
              outputData |-> [html |-> <<>>, entry |-> <<>>, lib |-> <<>>,
                              json |-> <<>>, outData |-> <<>>],
              errorCount |-> 0]
  /\ fsDirs = {<<>>}
  /\ fsMade = {}
  /\ fsFiles = {}
  /\ attempts = {}
  /\ runs = <<>>
  /\ reqs = <<>>
  /\ hooks = <<>>
  /\ watch = NoWatch
  /\ steps = 0
  /\ hung = FALSE
  /\ now = 1
  /\ last = [op |-> "init", page |-> ""]

----------------------------------------------------------------------------
(* The site of the generation runs *)

File(dir, name) == [dir |-> dir, name |-> name, ext |-> ".ejs"]

Block(tag, code) == [tag |-> tag, code |-> code, ref |-> <<>>]

UseBlock(ref) == [tag |-> "generate-use", code |-> "", ref |-> ref]

Source(generate, wrapper, scripts, template) ==
  [attributes |-> [generate |-> generate, wrapper |-> wrapper],
   scripts |-> scripts, template |-> template]

\* p: a literal target with a generate script, an entry script and a lib
\* script
PageP ==
  [file |-> File(<<>>, "p"),
   src |-> Source(<<"p">>, "",
                  <<Block("generate", "gp"), Block("entry", "ep"),
                    Block("lib", "lp")>>,
                  <<"#text">>)]

\* b: a one-wildcard target with a generate script
PageB ==
  [file |-> File(<<>>, "b"),
   src |-> Source(<<"b", "/", "*">>, "", <<Block("generate", "gb")>>, <<"#text">>)]

\* t: a two-wildcard target with a generate script
PageT ==
  [file |-> File(<<>>, "t"),
   src |-> Source(<<"t", "/", "*", "/", "*">>, "", <<Block("generate", "gt")>>,
                  <<"#text">>)]

\* x: a literal target that leaves the output directory, without a script
PageX ==
  [file |-> File(<<>>, "x"),
   src |-> Source(<<".", ".", "/", "x">>, "", <<>>, <<"#text">>)]

RunSite == {PageP, PageB, PageT, PageX}

FragA == <<"a">>
FragC == <<"c">>

\* the siteFiles of a response: f inside the output directory, then ../e
SiteFiles == <<<<"f">>, <<".", ".", "/", "e">>>>

RunOps ==
  {OpGenerate(<<FragA>>), OpGenerate(<<FragA, FragC>>),
   OpResolve(NoResponse), OpResolve(Response(SiteFiles, <<>>, <<>>)),
   OpReject("Error"), OpReject("undefined"), OpThrow}

Next ==
  \/ ScanFile(RunSite)
  \/ GeneratePages
  \/ Dispatch(RunOps)
  \/ ScriptCall(RunOps)

Spec == Init /\ [][Next]_vars

----------------------------------------------------------------------------
(* The site of the dependency store: pages whose scripts ask to watch data *)
(* files and globs, a page that borrows the script of another, and the     *)
(* removal of pages.                                                        *)

\* v, y: literal targets with generate scripts of their own
PageV ==
  [file |-> File(<<>>, "v"),
   src |-> Source(<<"v">>, "", <<Block("generate", "gv")>>, <<"#text">>)]

PageY ==
  [file |-> File(<<>>, "y"),
   src |-> Source(<<"y">>, "", <<Block("generate", "gy")>>, <<"#text">>)]

\* u: a literal target that uses the generate script of l/g
PageU ==
  [file |-> File(<<>>, "u"),
   src |-> Source(<<"u">>, "", <<UseBlock(<<"l", "/", "g">>)>>, <<"#text">>)]

\* l/g: a script holder with a lib script, not generated itself
PageG ==
  [file |-> File(<<"l">>, "g"),
   src |-> Source(<<>>, "", <<Block("generate", "gg"), Block("lib", "lg")>>,
                  <<"#text">>)]

StoreSite == {PageV, PageY, PageU, PageG}

StoreNames == {"v", "y", "u", "l/g", "zz"}

\* the data file d/x and the glob d/*
DataX == <<"d", "/", "x">>
GlobD == <<"d", "*">>

StoreOps ==
  {OpResolve(NoResponse),
   OpResolve(Response(<<>>, <<DataX>>, <<>>)),
   OpResolve(Response(<<>>, <<>>, <<GlobD>>)),
   OpReject("Error")}

NextStore ==
  \/ ScanFile(StoreSite)
  \/ GeneratePages
  \/ Dispatch(StoreOps)
  \/ ScriptCall(StoreOps)
  \/ DeleteTemplate(StoreNames)

SpecStore == Init /\ [][NextStore]_vars

----------------------------------------------------------------------------
(* The site of the wrapper chains: page a wrapped by b, b wrapped by c, in *)
(* the versions a rescan can bring: b without a wrapper, c wrapped by a.   *)

Wrapped == <<"#text", "_body", "#text">>

\* a: a literal target, wrapped by b, no script
PageA ==
  [file |-> File(<<>>, "a"), src |-> Source(<<"a">>, "b", <<>>, <<"#text">>)]

\* b: a wrapper, itself wrapped by c
PageWB ==
  [file |-> File(<<>>, "b"), src |-> Source(<<>>, "c", <<>>, Wrapped)]

\* b as a wrapper that is not wrapped
PageWB0 ==
  [file |-> File(<<>>, "b"), src |-> Source(<<>>, "", <<>>, Wrapped)]

\* c: the outermost wrapper
PageWC ==
  [file |-> File(<<>>, "c"), src |-> Source(<<>>, "", <<>>, Wrapped)]

\* c wrapped by a: the chain is a cycle
PageWCA ==
  [file |-> File(<<>>, "c"), src |-> Source(<<>>, "a", <<>>, Wrapped)]

WrapSite == {PageA, PageWB, PageWB0, PageWC, PageWCA}

WrapNames == {"a", "b", "c"}

NextWrap ==
  \/ ScanFile(WrapSite)
  \/ GeneratePages
  \/ Dispatch({})

SpecWrap == Init /\ [][NextWrap]_vars

----------------------------------------------------------------------------
(* The site of the body slots: templates with a body slot that are         *)
(* rendered as pages of their own, and a wrapper with two body slots.      *)

\* b as a wrapper with two body slots
PageWB2 ==
  [file |-> File(<<>>, "b"),
   src |-> Source(<<>>, "", <<>>, <<"_body", "#text", "_body">>)]

\* d: a literal target with an entry script, whose template has a body slot
\* although no page is wrapped by it
PageWD ==
  [file |-> File(<<>>, "d"),
   src |-> Source(<<"d">>, "", <<Block("entry", "ed")>>, Wrapped)]

\* e: the same with a generate script
PageWE ==
  [file |-> File(<<>>, "e"),
   src |-> Source(<<"e">>, "", <<Block("generate", "ge")>>, Wrapped)]

SlotSite == {PageA, PageWB0, PageWB2, PageWD, PageWE}

SlotOps == {OpResolve(NoResponse)}

NextSlot ==
  \/ ScanFile(SlotSite)
  \/ GeneratePages
  \/ Dispatch(SlotOps)
  \/ ScriptCall(SlotOps)

SpecSlot == Init /\ [][NextSlot]_vars

----------------------------------------------------------------------------
(* The site of the stalled scripts: scripts that take their time, or never *)
(* call back, while their watchdogs fire.                                   *)

StallSite == {PageV, PageY}

StallOps == {OpResolve(NoResponse), OpReject("Error"), OpThrow}

NextStall ==
  \/ ScanFile(StallSite)
  \/ GeneratePages
  \/ Dispatch(StallOps)
  \/ ScriptCall(StallOps)
  \/ WatchdogTick

SpecStall == Init /\ [][NextStall]_vars

----------------------------------------------------------------------------
(* The site of the rescans: sources in the versions an edit can bring, with *)
(* and without their script blocks, and with a generate-use block that is  *)
(* not written correctly.                                                   *)

\* p after its script blocks were taken out of the source
PageP0 == [file |-> File(<<>>, "p"), src |-> Source(<<"p">>, "", <<>>, <<"#text">>)]

\* u with a generate-use block that names no library path
PageUBad ==
  [file |-> File(<<>>, "u"),
   src |-> Source(<<"u">>, "", <<UseBlock(<<"g">>)>>, <<"#text">>)]

\* u with a generate script of its own
PageUOwn ==
  [file |-> File(<<>>, "u"),
   src |-> Source(<<"u">>, "", <<Block("generate", "gu")>>, <<"#text">>)]

ScanSite == {PageP, PageP0, PageU, PageUBad, PageUOwn, PageG}

ScanOps == {OpResolve(NoResponse)}

NextScan ==
  \/ ScanFile(ScanSite)
  \/ GeneratePages
  \/ Dispatch(ScanOps)

SpecScan == Init /\ [][NextScan]_vars

----------------------------------------------------------------------------
(* The site of the entry scripts: the chain a, b, c with and without entry *)
(* scripts, and a page whose render fails.                                  *)

\* a with an entry script, wrapped by b
PageEA ==
  [file |-> File(<<>>, "a"),
   src |-> Source(<<"a">>, "b", <<Block("entry", "ea")>>, <<"#text">>)]

\* b with an entry script, wrapped by c
PageEB ==
  [file |-> File(<<>>, "b"),
   src |-> Source(<<>>, "c", <<Block("entry", "eb")>>, Wrapped)]

\* c with an entry script
PageEC ==
  [file |-> File(<<>>, "c"),
   src |-> Source(<<>>, "", <<Block("entry", "ec")>>, Wrapped)]

EntrySite == {PageA, PageEA, PageWB, PageEB, PageWC, PageEC, PageWD}

NextEntry ==
  \/ ScanFile(EntrySite)
  \/ GeneratePages
  \/ Dispatch({})

SpecEntry == Init /\ [][NextEntry]_vars

----------------------------------------------------------------------------
(* The site of the cache: a cache file loaded at construction, scripts and *)
(* hooks that run as time passes.                                           *)

Item(name, kind, num) == [name |-> name, expires |-> [kind |-> kind, num |-> num]]

StartTime == 5

\* items of a cache file: expired, not yet expired, without expires, and
\* with an expires of 0, of true, of null, of "soon"
Stale == Item("stale", "number", 3)
Fresh == Item("fresh", "number", 6)
Plain == Item("plain", "undefined", 0)
Zero == Item("zero", "number", 0)
Flag == Item("flag", "boolean", 1)
Null == Item("null", "null", 0)
Soon == Item("soon", "string", 0)

\* the cache files: the groups JSON.parse returns
CacheFiles ==
  {<<>>,
   [shared |-> <<Plain, Stale, Fresh>>],
   [shared |-> <<Stale, Soon, Fresh>>],
   [shared |-> <<Flag, Zero, Null>>]}

\* the state after construction with a cache file (api.ts 207, 312-320)
InitCache ==
  /\ \E file \in CacheFiles :
        state = [generateScripts |-> <<>>, generateScriptRefs |-> <<>>,
                 entryScripts |-> <<>>, templateDepTree |-> <<>>,
                 pathDepTree |-> <<>>, wildDepTree |-> <<>>, globalDeps |-> {},
                 frontMatter |-> <<>>, templates |-> <<>>, toGenerate |-> <<>>,
                 globalData |-> [defined |-> TRUE, data |-> <<>>, obj |-> 0], cache |-> file,
                 outputData |-> [html |-> <<>>, entry |-> <<>>, lib |-> <<>>,
                                 json |-> <<>>, outData |-> <<>>],
                 errorCount |-> 0]
  /\ fsDirs = {<<>>}
  /\ fsMade = {}
  /\ fsFiles = {}
  /\ attempts = {}
  /\ runs = <<>>
  /\ reqs = <<>>
  /\ hooks = <<>>
  /\ watch = NoWatch
  /\ steps = 0
  /\ hung = FALSE
  /\ now = StartTime
  /\ last = [op |-> "init", page |-> ""]

CacheSite == {PageV}

CacheOps ==
  {OpResolve(NoResponse), OpResolve(CacheResponse(<<Stale, Flag>>)), OpThrow}

CacheHookOps == {OpResolve(GlobalResponse(<<>>)), OpReject("Error")}

NextCache ==
  \/ ScanFile(CacheSite)
  \/ GeneratePages
  \/ Dispatch(CacheOps)
  \/ ScriptCall(CacheOps)
  \/ RunHook(CacheHookOps)
  \/ HookCall(CacheHookOps)
  \/ Tick

SpecCache == InitCache /\ [][NextCache]_vars

----------------------------------------------------------------------------
(* The site of the global data: a pre-generate hook that supplies it, and  *)
(* generate scripts that read it.                                           *)

\* the global data a pre-generate hook resolves with
GlobalOne == [k |-> 1, z |-> 0]
GlobalTwo == [k |-> 2]

GlobalKeys == {"k", "z", "m"}

GlobalSite == {PageV, PageY}

GlobalOps == {OpRead("k"), OpRead("z"), OpRead("m"), OpResolve(NoResponse)}

GlobalHookOps ==
  {OpResolve(GlobalResponse(GlobalOne)), OpResolve(GlobalResponse(GlobalTwo)),
   OpResolve(Response(<<>>, <<>>, <<>>))}

NextGlobal ==
  \/ ScanFile(GlobalSite)
  \/ GeneratePages
  \/ Dispatch(GlobalOps)
  \/ ScriptCall(GlobalOps)
  \/ RunHook(GlobalHookOps)
  \/ HookCall(GlobalHookOps)

SpecGlobal == Init /\ [][NextGlobal]_vars

\* the same site with scripts that also assign to the global data they
\* were handed
ShareOps == {OpRead("k"), OpWrite("k", 3), OpWrite("m", 3), OpResolve(NoResponse)}

ShareHookOps ==
  {OpResolve(GlobalResponse(GlobalOne)), OpResolve(GlobalResponse(GlobalTwo))}

NextShare ==
  \/ ScanFile({PageV})
  \/ GeneratePages
  \/ Dispatch(ShareOps)
  \/ ScriptCall(ShareOps)
  \/ RunHook(ShareHookOps)
  \/ HookCall(ShareHookOps)

SpecShare == Init /\ [][NextShare]_vars

----------------------------------------------------------------------------
(* The watcher after the first build of a site whose page v reads the      *)
(* global data: preGenerate.js changes.                                     *)

\* the first build (cli.ts 189-205) with scripts that complete within
\* their bodies: the pre-generate hook resolves with the global data, v is
\* scanned, and the run dispatches v, whose script reads inputs.global.k
\* and resolves; the watcher is set up
Built(w) ==
  LET h == processHook(w, "pre", <<OpResolve(GlobalResponse(GlobalOne))>>)
      f == Caught(ReadFileCallback(h, PageV.file, PageV.src))
      d == DispatchRequest(NewRun(f), 1, <<OpRead("k"), OpResolve(NoResponse)>>)
  IN [d EXCEPT !.watch.build = "watching"]

FirstBuild ==
  /\ ~hung
  /\ watch.build = "start"
  /\ steps < MaxSteps
  /\ Put(Built(World))
  /\ steps' = steps + 1
  /\ last' = [op |-> "watching", page |-> ""]
  /\ now' = now

PreOps == {OpResolve(GlobalResponse(GlobalTwo)), OpReject("Error")}

PreScriptOps == {OpRead("k"), OpResolve(NoResponse)}

NextPre ==
  \/ FirstBuild
  \/ Notify({}, {}, {})
  \/ HookCall(PreOps)
  \/ WindowElapsed
  \/ Dispatch(PreScriptOps)
  \/ FinishUpdate

\* the event loop runs the callbacks that are due: the pinger callback
\* once the window has elapsed, and the handlers of a settled promise
SpecPre ==
  /\ Init /\ [][NextPre]_vars
  /\ WF_vars(WindowElapsed) /\ WF_vars(FinishUpdate)

----------------------------------------------------------------------------
(* The site of the exit: a page whose script fills its cache group, and    *)
(* the events that end the process.                                         *)

ExitOps == {OpResolve(NoResponse), OpResolve(CacheResponse(<<Plain>>))}

\* two scripts on the shared cache group: they add an item in place or
\* resolve with a cache group of their own
Other == Item("other", "undefined", 0)

GroupOps ==
  {OpCacheAdd("plain"), OpResolve(CacheResponse(<<Other>>)), OpResolve(NoResponse)}

NextGroup ==
  \/ ScanFile({PageV, PageY})
  \/ GeneratePages
  \/ Dispatch(GroupOps)
  \/ ScriptCall(GroupOps)

SpecGroup == Init /\ [][NextGroup]_vars

\* the same scripts on a site of two pages, either of which is removed
NextRemove ==
  \/ ScanFile({PageV, PageY})
  \/ GeneratePages
  \/ Dispatch(ExitOps)
  \/ DeleteTemplate({"v", "y"})

SpecRemove == Init /\ [][NextRemove]_vars

NextExit ==
  \/ Alive /\ ScanFile({PageV})
  \/ Alive /\ GeneratePages
  \/ Alive /\ Dispatch(ExitOps)
  \/ Alive /\ ScriptCall(ExitOps)
  \/ Alive /\ Tick
  \/ ProcessEvent

SpecExit == Init /\ [][NextExit]_vars

----------------------------------------------------------------------------
(* The site of the watcher: pages whose scripts watch a data file, and the *)
(* changes the watcher reports after the first build.                       *)

WatchSite == {PageV, PageY}

WatchOps == {OpResolve(NoResponse), OpResolve(Response(<<>>, <<DataX>>, <<>>))}

NextWatch ==
  \/ ScanFile(WatchSite)
  \/ GeneratePages
  \/ Dispatch(WatchOps)
  \/ ScriptCall(WatchOps)
  \/ Notify(WatchSite, {PageV.file}, {DataX})
  \/ ReadDone
  \/ WindowElapsed
  \/ FinishUpdate

SpecWatch == Init /\ [][NextWatch]_vars

\* the watcher of a site of two pages, one without a script, with an event
\* loop that runs the callbacks that are due: the pinger callback once the
\* window has elapsed, and the handlers of a promise that has settled
FairSite == {PageP, PageV}

FairOps == {OpResolve(NoResponse)}

NextFair ==
  \/ ScanFile(FairSite)
  \/ GeneratePages
  \/ Dispatch(FairOps)
  \/ Notify(FairSite, {}, {DataX})
  \/ ReadDone
  \/ WindowElapsed
  \/ FinishUpdate

SpecWatchFair ==
  /\ Init /\ [][NextFair]_vars
  /\ WF_vars(WindowElapsed) /\ WF_vars(FinishUpdate)

----------------------------------------------------------------------------
(* The site of the builds: the promise chain of the first build with its   *)
(* hooks, and the runs data files start once the watcher is set up.        *)

BuildSite == {PageV, PageY}

BuildOps ==
  {OpResolve(NoResponse), OpResolve(Response(<<>>, <<DataX>>, <<>>)), OpThrow}

BuildHookOps == {OpResolve(GlobalResponse(<<>>)), OpReject("Error")}

NextBuild ==
  \/ BuildPre(BuildHookOps)
  \/ BuildPreDone
  \/ BuildScan(BuildSite)
  \/ BuildGenerate
  \/ Dispatch(BuildOps)
  \/ ScriptCall(BuildOps)
  \/ PostGenerate(BuildHookOps)
  \/ HookCall(BuildHookOps)
  \/ BuildWatch
  \/ BuildNotify({DataX})

SpecBuild == Init /\ [][NextBuild]_vars

----------------------------------------------------------------------------
(* The site of the data lookups: a page and the pre-generate hook, whose   *)
(* scripts ask to watch a data file and patterns, and the data files the   *)
(* watcher reports.                                                         *)

\* the data file d/z and the pattern x
DataZ == <<"d", "/", "z">>
GlobX == <<"x">>

\* a response that asks to watch files and patterns
WatchResponse(files, globs) ==
  [GlobalResponse(<<>>) EXCEPT !.watchFiles = files, !.watchGlobs = globs]

LookupOps ==
  {OpResolve(WatchResponse(<<DataX>>, <<>>)),
   OpResolve(WatchResponse(<<>>, <<GlobD>>)),
   OpResolve(WatchResponse(<<>>, <<GlobX>>))}

NextLookup ==
  \/ ScanFile({PageV})
  \/ GeneratePages
  \/ Dispatch(LookupOps)
  \/ RunHook(LookupOps)
  \/ Notify({}, {}, {DataX, DataZ})

SpecLookup == Init /\ [][NextLookup]_vars

----------------------------------------------------------------------------
(* Properties of the generation runs (Spec) *)

\* the requests dispatched by run k
ReqsOf(k) == {i \in 1..Len(reqs) : reqs[i].run = k}

\* the completion signals the script of a request has given: calls of
\* resolve, calls of reject, and synchronous bodies ended by an exception of
\* their own or of the batch callback
Signals(q) == q.nResolve + q.nReject + q.nThrow + q.nAbort

\* the requests of run k that have not completed: those the loop has not
\* reached, and the dispatched scripts that have not signalled
Outstanding(k) ==
  (Len(runs[k].list) + 1 - runs[k].idx)
  + Cardinality({i \in ReqsOf(k) : reqs[i].script /\ Signals(reqs[i]) = 0})

\* where renderTemplate writes the page of a path
HtmlOf(path) == Normalize(OutDirOf(fixPath(path)) \o <<"index.html">>)

C2_EveryRunCompletes ==
  \A k \in 1..Len(runs) :
    (/\ runs[k].idx > Len(runs[k].list)
     /\ \A i \in ReqsOf(k) : reqs[i].script => Signals(reqs[i]) = 1)
    => runs[k].resolved >= 1

\* C6: nothing outside the output root is created or written, and every
\* write operation (page html, entry script, lib file, siteFiles entry)
\* whose target lies outside the output root raised an error.
C6_OutputContainment ==
  /\ \A p \in fsFiles \cup fsMade : isRelative(outputDir, p)
  /\ \A a \in attempts :
        ~isRelative(outputDir, a.target) =>
          /\ a.threw
          /\ a.target \notin fsFiles
          /\ SubSeq(a.target, 1, Len(a.target) - 1) \notin fsMade

\* a page render and a siteFiles write were both aimed outside the root,
\* while other output was written
C6_Witness ==
  /\ \E a \in attempts : a.op = "html" /\ ~isRelative(outputDir, a.target)
  /\ \E a \in attempts : a.op = "json" /\ ~isRelative(outputDir, a.target)
  /\ fsFiles # {}

\* C7: for a script on a one-wildcard target, the pages rendered are
\* exactly the batch entries it asked for, in order, the i-th at the target
\* with its wildcard replaced by the i-th fragment, each written to
\* index.html below that path when it lies inside the output root;
\* resolving adds no render of the bare target.
C7_BatchRendersEachEntry ==
  \A i \in 1..Len(reqs) :
    LET q == reqs[i] IN
    (q.script /\ CountStars(q.generate) = 1) =>
      /\ Len(q.renders) = Len(q.asked)
      /\ \A j \in 1..Len(q.asked) :
            /\ q.renders[j] = ReplaceFirstStar(q.generate, q.asked[j])
            /\ isRelative(outputDir, HtmlOf(q.renders[j]))
                  => HtmlOf(q.renders[j]) \in fsFiles

\* target b/* with the fragments a and c, then resolve: b/a and b/c
C7_Witness ==
  \E i \in 1..Len(reqs) :
    /\ reqs[i].generate = <<"b", "/", "*">>
    /\ reqs[i].asked = <<FragA, FragC>>
    /\ reqs[i].nResolve = 1
    /\ reqs[i].renders = <<<<"b", "/", "a">>, <<"b", "/", "c">>>>
    /\ {<<"out", "b", "a", "index.html">>, <<"out", "b", "c", "index.html">>}
          \subseteq fsFiles
    /\ <<"out", "b", "*", "index.html">> \notin fsFiles

\* C8: a script on a zero-wildcard target that has not called the batch
\* callback has no page rendered before it resolves and exactly one, at the
\* literal target, once it has resolved.
C8_ZeroWildcardSingleRender ==
  \A i \in 1..Len(reqs) :
    LET q == reqs[i] IN
    (q.script /\ CountStars(q.generate) = 0 /\ q.nGenerate = 0) =>
      /\ q.nResolve = 0 => q.renders = <<>>
      /\ q.nResolve = 1 =>
            /\ q.renders = <<q.generate>>
            /\ isRelative(outputDir, HtmlOf(q.generate))
                  => HtmlOf(q.generate) \in fsFiles

C8_Witness ==
  \E i \in 1..Len(reqs) :
    /\ reqs[i].script /\ reqs[i].generate = <<"p">>
    /\ reqs[i].nGenerate = 0 /\ reqs[i].nResolve = 1
    /\ reqs[i].renders = <<<<"p">>>>
    /\ <<"out", "p", "index.html">> \in fsFiles

\* C9: a script on a target with two or more wildcards that issued a
\* non-empty batch request has no page rendered and exactly one counted
\* error.
C9_TwoWildcardsOneError ==
  \A i \in 1..Len(reqs) :
    LET q == reqs[i] IN
    (q.script /\ CountStars(q.generate) >= 2 /\ q.asked # <<>>) =>
      q.renders = <<>> /\ q.errors = 1

\* C10 as claimed: on a zero-wildcard target, a batch callback invoked with
\* a single page is accepted and renders that page at the literal target.
C10_SinglePageBatchAccepted ==
  \A i \in 1..Len(reqs) :
    LET q == reqs[i] IN
    (q.script /\ CountStars(q.generate) = 0 /\ q.nGenerate = 1
       /\ Len(q.asked) = 1) =>
      q.batch = q.asked /\ q.rendered = 1 /\ q.renders # <<>>

\* C10 as amended: on a zero-wildcard target every batch callback invocation
\* is refused with a validation error and renders nothing; the page is
\* rendered at the literal target only by the auto-render of each resolve.
C10_ZeroWildcardBatchRefused ==
  \A i \in 1..Len(reqs) :
    LET q == reqs[i] IN
    (q.script /\ CountStars(q.generate) = 0) =>
      /\ q.refused = q.nGenerate
      /\ q.batch = <<>> /\ q.rendered = 0
      /\ Len(q.renders) = q.nResolve
      /\ \A j \in 1..Len(q.renders) : q.renders[j] = q.generate

\* a single-page batch call was refused, a resolve rendered the page
C10_Witness ==
  \E i \in 1..Len(reqs) :
    /\ reqs[i].script /\ CountStars(reqs[i].generate) = 0
    /\ reqs[i].asked = <<FragA>> /\ reqs[i].refused = 1
    /\ reqs[i].nResolve = 1 /\ reqs[i].renders = <<reqs[i].generate>>

\* C17: a script whose one completion signal was a failure, a call of
\* reject or an error thrown by its synchronous body, has the error counter
\* incremented by exactly one on its account.
C17_ScriptFailureCounted ==
  \A i \in 1..Len(reqs) :
    LET q == reqs[i] IN
    (q.script /\ Signals(q) = 1 /\ q.nReject + q.nThrow = 1 /\ q.nGenerate = 0)
      => q.errors = 1

\* the records of the output ledger
Ledger ==
  {state.outputData.html[j] : j \in 1..Len(state.outputData.html)}
  \cup {state.outputData.entry[j] : j \in 1..Len(state.outputData.entry)}
  \cup {state.outputData.lib[j] : j \in 1..Len(state.outputData.lib)}
  \cup {state.outputData.json[j] : j \in 1..Len(state.outputData.json)}

\* C18: every record of the output ledger (html, entry, lib, json) names a
\* path inside the output root whose write was issued; no write refused as
\* leaving the output root has a record.
C18_LedgerOnlyIssuedWrites ==
  /\ \A r \in Ledger : isRelative(outputDir, r.path) /\ r.path \in fsFiles
  /\ \A a \in attempts :
        a.threw => \A r \in Ledger : r.path # a.target

----------------------------------------------------------------------------
(* Properties of the dependency store (SpecStore) *)

\* the data files whose change is looked up
DataPaths == {Normalize(Split(DataX))}

\* C3: every page recorded as a dependent of a resource is in the
\* dependent set computed for a change of that resource: of a data path
\* through its exact key and through every glob it matches, of a template,
\* and of the global data.
C3_DependencyCompleteness ==
  /\ \A path \in DataPaths : \A P \in StoreNames :
        (\/ Has(state.pathDepTree, path) /\ P \in state.pathDepTree[path]
         \/ \E i \in 1..Len(state.wildDepTree) :
               /\ GlobMatch(path, state.wildDepTree[i].key)
               /\ P \in state.wildDepTree[i].deps)
        => P \in getDataDeps(state, path).deps
  /\ \A K \in DOMAIN state.templateDepTree :
        state.templateDepTree[K] \subseteq getTemplateDeps(state, K)
  /\ state.globalDeps \subseteq getGlobalDeps(state)

\* C4: right after processDeletedTemplatePromise(P), P is in no dependent
\* set of the template, path and glob indexes, not in the global-data set,
\* and not in the pending-generation queue.
C4_RemovedFromAllIndexes ==
  last.op = "delete" =>
    /\ \A K \in DOMAIN state.templateDepTree :
          last.page \notin state.templateDepTree[K]
    /\ \A K \in DOMAIN state.pathDepTree : last.page \notin state.pathDepTree[K]
    /\ \A i \in 1..Len(state.wildDepTree) :
          last.page \notin state.wildDepTree[i].deps
    /\ last.page \notin state.globalDeps
    /\ QueueIndex(state.toGenerate, last.page) = 0

\* C19: right after processDeletedTemplatePromise(P), the content store
\* holds nothing of P: no front matter, no compiled template, no generate
\* script, no generate-script reference, no entry script, no outData record.
C19_AllAttributesRemoved ==
  last.op = "delete" =>
    /\ ~Has(state.frontMatter, last.page)
    /\ ~Has(state.templates, last.page)
    /\ ~Has(state.generateScripts, last.page)
    /\ ~Has(state.generateScriptRefs, last.page)
    /\ ~Has(state.entryScripts, last.page)
    /\ ~Has(state.outputData.outData, last.page)

\* C5: processDeletedTemplatePromise raises no error for any page name,
\* known or not, and right after it has run for P, running it again for P
\* changes nothing.
C5_RemovalIdempotent ==
  /\ \A P \in StoreNames : ~processDeletedTemplatePromise(World, P).exc
  /\ last.op = "delete" =>
        processDeletedTemplatePromise(World, last.page) = World

\* v was removed after it had registered a watched file and been rendered
C5_Witness ==
  /\ last = [op |-> "delete", page |-> "v"]
  /\ Has(state.pathDepTree, <<"d", "x">>)
  /\ state.pathDepTree[<<"d", "x">>] = {}
  /\ <<"out", "v", "index.html">> \in fsFiles

----------------------------------------------------------------------------
(* Properties of the wrapper chains (SpecWrap) *)

DepsOf(tree, K) == IF Has(tree, K) THEN tree[K] ELSE {}

BodySlots(items) == Cardinality({j \in 1..Len(items) : items[j] = "_body"})

\* the text of a template whose only items are its own text and body
\* slots, with inner standing at every body slot
RECURSIVE Substitute(_, _, _)
Substitute(name, items, inner) ==
  IF items = <<>> THEN <<>>
  ELSE (IF Head(items) = "#text" THEN <<name>> ELSE inner)
       \o Substitute(name, Tail(items), inner)

\* the store holds A wrapped by B, B wrapped by C, C not wrapped, A without
\* a body slot and each wrapper with one
Chain(A, B, C) ==
  /\ {A, B, C} \subseteq DOMAIN state.frontMatter
  /\ {A, B, C} \subseteq DOMAIN state.templates
  /\ state.frontMatter[A].wrapper = B
  /\ state.frontMatter[B].wrapper = C
  /\ state.frontMatter[C].wrapper = ""
  /\ BodySlots(state.templates[A]) = 0
  /\ BodySlots(state.templates[B]) = 1
  /\ BodySlots(state.templates[C]) = 1

ChainHtml(A, B, C) ==
  Substitute(C, state.templates[C],
             Substitute(B, state.templates[B],
                        Substitute(A, state.templates[A], <<>>)))

\* the request dispatched last was page A and its render returned
RenderedLast(A) ==
  /\ last = [op |-> "dispatch", page |-> A]
  /\ reqs # <<>> /\ reqs[Len(reqs)].name = A

\* C11: with A wrapped by B, B wrapped by C and C not wrapped, the walk
\* stacks A then B and starts the render at C; the render of A emits C's
\* text, B's text at C's body slot and A's text at B's body slot; a body
\* slot takes the top entry of the stack, so that B's slot leaves the stack
\* empty and A, pushed first, is taken last.
C11_WrapperChainOrder ==
  \A A \in WrapNames : \A B \in WrapNames : \A C \in WrapNames :
    Chain(A, B, C) =>
      LET walk == WrapWalk(World, A, A, <<>>, MaxWalk)
          whole == renderRecursive(World, A, <<>>, A, MaxDepth)
          inner == renderRecursive(World, A, <<A>>, "_body", MaxDepth)
          outer == renderRecursive(World, A, <<A, B>>, "_body", MaxDepth)
      IN /\ walk.stack = <<A, B>> /\ walk.cur = C
         /\ ~whole.exc /\ ~whole.hang /\ whole.html = ChainHtml(A, B, C)
         /\ ~inner.exc /\ inner.stack = <<>>
         /\ inner.html = Substitute(A, state.templates[A], <<>>)
         /\ ~outer.exc /\ outer.stack = <<>>
         /\ outer.html = Substitute(B, state.templates[B], inner.html)
         /\ RenderedLast(A) => reqs[Len(reqs)].htmls = <<ChainHtml(A, B, C)>>

\* page a was rendered through b and c: c, b, a, b, c
C11_Witness ==
  /\ Chain("a", "b", "c")
  /\ RenderedLast("a")
  /\ reqs[Len(reqs)].htmls = <<<<"c", "b", "a", "b", "c">>>>
  /\ <<"out", "a", "index.html">> \in fsFiles

\* C12: right after page A was rendered through the chain A wrapped by B,
\* B wrapped by C, the template index holds A among the dependents of B and
\* B among the dependents of C.
C12_WrapperEdgesRecorded ==
  \A A \in WrapNames : \A B \in WrapNames : \A C \in WrapNames :
    (Chain(A, B, C) /\ RenderedLast(A) /\ reqs[Len(reqs)].htmls # <<>>) =>
      /\ A \in DepsOf(state.templateDepTree, B)
      /\ B \in DepsOf(state.templateDepTree, C)

----------------------------------------------------------------------------
(* Properties of the cache (SpecCache) *)

\* a cache group holds an item whose expires is a number earlier than t
HoldsExpired(cacheGroup, t) ==
  \E j \in 1..Len(cacheGroup) :
    cacheGroup[j].expires.kind = "number" /\ t > cacheGroup[j].expires.num

\* a cache group holds an item whose expires is present and not a number
HoldsNonNumeric(cacheGroup) ==
  \E j \in 1..Len(cacheGroup) :
    cacheGroup[j].expires.kind \in {"string", "boolean", "null"}

\* C13: the cache group handed to a script, be it a generate script, the
\* pre-generate hook or the post-generate hook, holds no item whose numeric
\* expires lay in the past when the script started.
C13_NoExpiredEntryHandedOver ==
  /\ \A i \in 1..Len(reqs) :
        (reqs[i].script /\ reqs[i].at > 0) =>
          ~HoldsExpired(reqs[i].cache, reqs[i].at)
  /\ \A j \in 1..Len(hooks) : ~HoldsExpired(hooks[j].cache, hooks[j].at)

\* C14: when the cache holds an item whose expires is present and not a
\* number, the dispatch of the next generate script aborts the run: the
\* promise of generatePages rejects.
C14_NonNumericExpiryAborts ==
  \A k \in 1..Len(runs) :
    (/\ runs[k].idx <= Len(runs[k].list)
     /\ getGenerateScript(state, runs[k].list[runs[k].idx].name) # ""
     /\ state.globalData.defined
     /\ Has(state.cache, "shared") /\ HoldsNonNumeric(state.cache["shared"]))
    => DispatchRequest(World, k, <<>>).runs[k].rejected

----------------------------------------------------------------------------
(* Properties of the global data (SpecGlobal) *)

\* the reads of the global data the scripts have made
Reads == {<<i, n>> \in (1..Len(reqs)) \X (1..MaxSteps + 1) : n <= Len(reqs[i].reads)}

C16_DefinedGlobalRead ==
  \A x \in Reads :
    LET r == reqs[x[1]].reads[x[2]]
    IN r.present => ~r.threw /\ r.value = r.stored /\ r.after

----------------------------------------------------------------------------
(* Properties of the watcher (SpecWatch) *)

\* C20: every run the watcher starts through updateDeps is started by the
\* pinger callback after the window has elapsed, with the set merged from
\* the notifications; no notification, whatever its kind, starts a run of
\* its own.
C20_OneRunPerWindow ==
  \A j \in 1..Len(watch.updates) :
    watch.updates[j].run # 0 => watch.updates[j].by = "window"

----------------------------------------------------------------------------
(* Properties of the builds (SpecBuild) *)

\* the post-generate hook invocations started by the promise chain of run k
PostsOf(k) == {j \in 1..Len(hooks) : hooks[j].kind = "post" /\ hooks[j].run = k}

\* C21: in the first build no page request is dispatched before the
\* pre-generate hook has resolved; the post-generate hook of a run is
\* started at most once, and at the moment it starts no request of that run
\* is waiting to be dispatched or has a script that has not signalled (in
\* runs whose scripts each called resolve or reject at most once).
C21_PreBeforePages ==
  reqs # <<>> =>
    \A j \in 1..Len(hooks) : hooks[j].kind = "pre" => hooks[j].settled = "resolved"

C21_PostAtMostOnce == \A k \in 1..Len(runs) : Cardinality(PostsOf(k)) <= 1

C21_PostAfterPages ==
  last.op = "post" =>
    LET k == hooks[Len(hooks)].run
    IN (\A i \in ReqsOf(k) : reqs[i].nResolve + reqs[i].nReject <= 1)
         => Outstanding(k) = 0

C21_HookOrdering ==
  /\ C21_PreBeforePages
  /\ C21_PostAtMostOnce
  /\ C21_PostAfterPages

----------------------------------------------------------------------------
(* Properties of the data lookups (SpecLookup) *)

\* the patterns of the wild tree that match a path, by their position
Matching(path) ==
  {i \in 1..Len(state.wildDepTree) : GlobMatch(path, state.wildDepTree[i].key)}

----------------------------------------------------------------------------
(* Properties of the dispatch loop (Spec) *)

\* the requests of run k in the order they were dispatched
RECURSIVE DispatchedAcc(_, _, _)
DispatchedAcc(k, i, acc) ==
  IF i > Len(reqs) THEN acc
  ELSE DispatchedAcc(k, i + 1, IF reqs[i].run = k THEN Append(acc, reqs[i]) ELSE acc)

Dispatched(k) == DispatchedAcc(k, 1, <<>>)

\* in every run that was not aborted, the requests dispatched so far are
\* the first entries of the snapshot, in its order, and none of them is in
\* the queue after a step of the loop, its last step included
InQueueOrder ==
  \A k \in 1..Len(runs) :
    ~runs[k].rejected =>
      LET ds == Dispatched(k)
      IN /\ Len(ds) = runs[k].idx - 1
         /\ \A m \in 1..Len(ds) :
               /\ ds[m].name = runs[k].list[m].name
               /\ ds[m].generate = runs[k].list[m].generate
         /\ (last.op = "dispatch" /\ reqs[Len(reqs)].run = k) =>
               \A m \in 1..Len(ds) : QueueIndex(state.toGenerate, ds[m].name) = 0

\* a step dispatches at most one request, and the request it dispatches
\* was in the queue before the step and is not in it after the step
ConsumesEntry ==
  Len(reqs') # Len(reqs) =>
    /\ Len(reqs') = Len(reqs) + 1
    /\ LET q == reqs'[Len(reqs')]
           i == QueueIndex(state.toGenerate, q.name)
       IN /\ i # 0
          /\ state.toGenerate[i].generate = q.generate
          /\ QueueIndex(state'.toGenerate, q.name) = 0

----------------------------------------------------------------------------
(* Properties of the body slots (SpecSlot) *)

\* the only items of a template are its own text and body slots
TextAndSlots(items) == \A j \in 1..Len(items) : items[j] \in {"#text", "_body"}

\* rendering page name reaches a body slot with nothing on the wrapper
\* stack: the page is not wrapped and its template has a body slot, or its
\* wrapper, not wrapped itself, has more than one
HitsEmptySlot(name) ==
  /\ Has(state.frontMatter, name) /\ Has(state.templates, name)
  /\ TextAndSlots(state.templates[name])
  /\ LET b == state.frontMatter[name].wrapper
     IN \/ b = "" /\ BodySlots(state.templates[name]) >= 1
        \/ /\ b # "" /\ Has(state.frontMatter, b) /\ Has(state.templates, b)
           /\ state.frontMatter[b].wrapper = ""
           /\ TextAndSlots(state.templates[b])
           /\ BodySlots(state.templates[name]) = 0
           /\ BodySlots(state.templates[b]) >= 2

\* the step handed one more path of request i to renderTemplate
RendersIn(i) ==
  /\ i \in 1..Len(reqs')
  /\ Len(reqs'[i].renders) = 1 + (IF i <= Len(reqs) THEN Len(reqs[i].renders) ELSE 0)

\* what a render that meets an empty body slot leaves behind
SlotFailure(i) ==
  LET q == reqs'[i]
      k == q.run
  IN /\ state'.errorCount = state.errorCount + 1
     /\ q.htmls = (IF i <= Len(reqs) THEN reqs[i].htmls ELSE <<>>)
     /\ fsFiles' = fsFiles /\ fsMade' = fsMade
     /\ state'.outputData = state.outputData
     /\ runs'[k].toRender = runs[k].toRender - 1
     /\ ~runs'[k].rejected /\ ~hung'
     /\ i > Len(reqs) => runs'[k].idx = runs[k].idx + 1

----------------------------------------------------------------------------
(* Properties of the entry scripts (SpecEntry) *)

\* the wrapper chain of a page, outermost wrapper first, the page last
RECURSIVE ChainOf(_, _)
ChainOf(name, fuel) ==
  IF fuel = 0 \/ ~Has(state.frontMatter, name) THEN <<name>>
  ELSE LET wrapper == state.frontMatter[name].wrapper
       IN IF wrapper = "" THEN <<name>>
          ELSE Append(ChainOf(wrapper, fuel - 1), name)

\* the entry scripts of the pages of a chain, in the order of the chain
RECURSIVE ScriptsOf(_)
ScriptsOf(chain) ==
  IF chain = <<>> THEN <<>>
  ELSE (IF Has(state.entryScripts, Head(chain))
        THEN <<[page |-> Head(chain), code |-> state.entryScripts[Head(chain)]]>>
        ELSE <<>>) \o ScriptsOf(Tail(chain))

\* where the entry script of a rendered path is written
EntryOf(path) ==
  Normalize(OutDirOf(fixPath(path)) \o <<getEntryScriptName(fixPath(path)) \o ".js">>)

----------------------------------------------------------------------------
(* Properties of the watchdog (SpecStall) *)

\* the script of a request has made no call and its body has not thrown
Silent(q) == q.script /\ q.ops = 0 /\ q.nThrow = 0

\* C26: a watchdog tick changes nothing of the engine: not the counters of
\* the runs, not the error counter, not a request; a request whose script
\* has made no call is as it was dispatched, its timer running, whatever
\* ticks have passed; and the timer of a request is stopped once its script
\* has called resolve or reject.
C26_WatchdogAdvisory ==
  [][/\ last'.op = "watchdog" =>
          /\ UNCHANGED <<state, runs, reqs, fsDirs, fsMade, fsFiles, attempts>>
          /\ ~hung'
     /\ \A i \in 1..Len(reqs') :
          LET q == reqs'[i]
          IN /\ Silent(q) =>
                  /\ q.pinger /\ q.errors = 0 /\ q.nReject = 0
                  /\ q.rendered = 0 /\ q.renders = <<>>
             /\ q.nResolve + q.nReject >= 1 => ~q.pinger]_vars

\* the watchdog of v has fired while its script stays silent: the run is
\* still waiting for it, nothing was counted, and the timer of y, which
\* resolved, is stopped
C26_Witness ==
  /\ last = [op |-> "watchdog", page |-> "v"]
  /\ Len(runs) = 1 /\ runs[1].resolved = 0 /\ runs[1].toRender = 1
  /\ state.errorCount = 0
  /\ \E i \in ReqsOf(1) : reqs[i].name = "v" /\ Silent(reqs[i]) /\ reqs[i].pinger
  /\ \E i \in ReqsOf(1) : reqs[i].name = "y" /\ reqs[i].nResolve = 1 /\ ~reqs[i].pinger

----------------------------------------------------------------------------
(* Properties of the rescans (SpecScan) *)

\* the blocks of a source with a given tag
BlocksOf(src, tag) == {j \in 1..Len(src.scripts) : src.scripts[j].tag = tag}

\* the source has a generate-use block that is not written correctly and
\* no generate script of its own
Malformed(src) ==
  /\ BlocksOf(src, "generate") = {}
  /\ BlocksOf(src, "generate-use") # {}
  /\ \A j \in BlocksOf(src, "generate-use") :
        ~(Len(src.scripts[j].ref) > 0 /\ MatchesUseRegex(src.scripts[j].ref))

\* the store as the scan of a file leaves it
Scanned(f) == Caught(ReadFileCallback(World, f.file, f.src))

\* C27: whatever was scanned before, the scan of a source whose
\* generate-use block is malformed leaves the page without an operative
\* generate script, counts no error, and ends with the page compiled and
\* queued like any other.
C27_MalformedUseRecovered ==
  \A f \in ScanSite :
    Malformed(f.src) =>
      LET name == testTemplate(f.file)
          after == Scanned(f)
      IN /\ getGenerateScript(after.state, name) = ""
         /\ after.state.errorCount = state.errorCount
         /\ Has(after.state.templates, name)
         /\ QueueIndex(after.state.toGenerate, name) # 0

\* C28: after the scan of a source the page has a generate script, a
\* generate-script reference and an entry script exactly if the source has
\* the block, with the content of the block.
C28_RescanOverwrites ==
  \A f \in ScanSite :
    LET name == testTemplate(f.file)
        st == Scanned(f).state
        Stored(field, tag) ==
          IF BlocksOf(f.src, tag) = {} THEN ~Has(field, name)
          ELSE /\ Has(field, name)
               /\ \E j \in BlocksOf(f.src, tag) : field[name] = f.src.scripts[j].code
    IN /\ Stored(st.generateScripts, "generate")
       /\ Stored(st.entryScripts, "entry")
       /\ IF \E j \in BlocksOf(f.src, "generate-use") :
                MatchesUseRegex(f.src.scripts[j].ref)
          THEN /\ Has(st.generateScriptRefs, name)
               /\ \E j \in BlocksOf(f.src, "generate-use") :
                     st.generateScriptRefs[name] = Cat(f.src.scripts[j].ref)
          ELSE ~Has(st.generateScriptRefs, name)

----------------------------------------------------------------------------
(* Properties of the writers of the global data (SpecShare) *)

\* resolve was called by a pre-generate hook in the step
PreHookResolves ==
  \E j \in 1..Len(hooks') :
    /\ hooks'[j].kind = "pre"
    /\ hooks'[j].nResolve > (IF j <= Len(hooks) THEN hooks[j].nResolve ELSE 0)

\* C29: the global data store changes only in a step in which a
\* pre-generate hook resolves, and is then the global snapshot of the
\* payload; no step of a page's generate script or of the post-generate
\* hook changes it.
C29_GlobalOnlyByPreHook ==
  [][/\ state'.globalData # state.globalData => PreHookResolves
     /\ PreHookResolves =>
           /\ state'.globalData.defined
           /\ state'.globalData.data \in {GlobalOne, GlobalTwo}]_vars

----------------------------------------------------------------------------
(* Properties of the exit (SpecExit) *)

\* C30: whichever events reach the process, storeCache is invoked at most
\* once, and once an event has reached it, exactly once, during the first
\* event.
C30_StoreCacheOnce ==
  /\ Len(watch.stored) <= 1
  /\ watch.events # <<>> => Len(watch.stored) = 1 /\ watch.stored[1].on = 1

\* the process received SIGINT with a filled cache: the cache was stored,
\* process.exit called the listener of "exit", and the process has ended
\* with code 130
C30_Witness ==
  /\ watch.events = <<"SIGINT", "exit">>
  /\ watch.ended = <<130>>
  /\ Len(watch.stored) = 1
  /\ watch.stored[1].wrote /\ watch.stored[1].data = state.cache
  /\ Has(state.cache, "shared") /\ state.cache["shared"] # <<>>
  /\ cacheDir \o <<"cache.json">> \in fsFiles

----------------------------------------------------------------------------
(* Properties of the barrier under scripts that signal more than once (Spec) *)

\* C31: whatever the scripts of a run do, the counter of the run is never
\* negative, and the promise of generatePages has not resolved while a
\* request of the run is still outstanding.
C31_BarrierAnyScript ==
  \A k \in 1..Len(runs) :
    /\ runs[k].toRender >= 0
    /\ runs[k].resolved >= 1 => Outstanding(k) = 0

\* C32: once the promise of generatePages has resolved for a run, no
\* request of the run starts a further page render.
C32_NoRenderAfterResolve ==
  [][\A i \in 1..Len(reqs) :
       runs[reqs[i].run].resolved >= 1 =>
         Len(reqs'[i].renders) = Len(reqs[i].renders)]_vars

----------------------------------------------------------------------------
(* Properties of the promise of updateDeps (SpecWatchFair) *)

\* the promise of the j-th call of updateDeps has been resolved or rejected
UpdateEnded(j) ==
  /\ j <= Len(watch.updates)
  /\ LET u == watch.updates[j]
     IN \/ u.rejected
        \/ u.run # 0 /\ (runs[u.run].resolved >= 1 \/ runs[u.run].rejected)

\* the j-th call of updateDeps found nothing queued
NothingQueued(j) ==
  /\ j <= Len(watch.updates)
  /\ watch.updates[j].run = 0 /\ ~watch.updates[j].rejected

\* C33: the promise of a call of updateDeps that finds nothing queued (an
\* empty set, or pages without a generate target) is eventually settled.
C33_UpdateSettles ==
  \A j \in 1..MaxSteps : [](NothingQueued(j) => <>UpdateEnded(j))

----------------------------------------------------------------------------
(* Properties of the pending set of the watcher (SpecWatch) *)

\* the calls of updateDeps by the pinger callback that are settled in the
\* step, and those made after them
SettledOrLater ==
  LET ended == watch.waiting \ watch'.waiting
      first == {j \in 1..Len(watch.updates) : watch.updates[j].run \in ended}
  IN {j \in 1..Len(watch'.updates) :
        /\ watch'.updates[j].by = "window"
        /\ \A c \in first : j >= c}

\* C34: a page leaves the pending set only if the call of updateDeps whose
\* end clears the set, or a later call, was passed the page.
C34_NoChangeLost ==
  [][\A page \in watch.deps \ watch'.deps :
       \E j \in SettledOrLater : page \in watch'.updates[j].dependencies]_vars

----------------------------------------------------------------------------
(* Properties of a change of preGenerate.js (SpecPre) *)

\* the pinger callback has just passed the page to updateDeps
JustPassed(page) ==
  /\ last.op = "window"
  /\ page \in watch.updates[Len(watch.updates)].dependencies

\* C35: once the hook started by a change of preGenerate.js has resolved
\* and the pages that depend on the global data are in the pending set,
\* while no call of updateDeps by the pinger callback is in progress, the
\* pinger callback eventually passes them to updateDeps, which queues them
\* for a follow-up run (as long as the behaviour has steps left).
C35_GlobalDependentsUpdated ==
  [](("v" \in watch.deps /\ watch.waiting = {} /\ steps < MaxSteps)
       => <>(JustPassed("v") \/ steps = MaxSteps))

----------------------------------------------------------------------------
(* Properties of a removal reported by the watcher (SpecWatch) *)

\* C36: right after the watcher has reported the source file of page v as
\* removed, the content store holds no front matter, no generate script
\* and no queue entry of v.
C36_DeletedFileRemovesPage ==
  (last = [op |-> "notify", page |-> "deleted"]) =>
     LET name == testTemplate(PageV.file)
     IN /\ ~Has(state.frontMatter, name)
        /\ ~Has(state.generateScripts, name)
        /\ QueueIndex(state.toGenerate, name) = 0

----------------------------------------------------------------------------
(* Properties of the frame of a removal (SpecRemove) *)

\* a map without the key of page P
Others(f, P) == [x \in (DOMAIN f) \ {P} |-> f[x]]

\* no script of page P has resolved: whatever the cache holds was written
\* by other pages
WroteNothing(P) == \A i \in 1..Len(reqs) : reqs[i].name = P => reqs[i].nResolve = 0

\* C37: processDeletedTemplatePromise(P) leaves the front matter, the
\* scripts, the dependency edges and the queue entries of every other page
\* as they were, and the cache entries that other pages wrote.
C37_RemovalFrame ==
  \A P \in {"v", "y"} :
    LET st == processDeletedTemplatePromise(World, P).state
    IN /\ Others(st.frontMatter, P) = Others(state.frontMatter, P)
       /\ Others(st.generateScripts, P) = Others(state.generateScripts, P)
       /\ Others(st.generateScriptRefs, P) = Others(state.generateScriptRefs, P)
       /\ Others(st.entryScripts, P) = Others(state.entryScripts, P)
       /\ \A key \in DOMAIN state.pathDepTree :
             st.pathDepTree[key] \ {P} = state.pathDepTree[key] \ {P}
       /\ st.toGenerate = Unqueue(state.toGenerate, P)
       /\ (WroteNothing(P) /\ Has(state.cache, "shared")
             /\ state.cache["shared"] # <<>>)
            => Has(st.cache, "shared") /\ st.cache["shared"] = state.cache["shared"]

----------------------------------------------------------------------------
(* Properties of the shared cache group (SpecGroup) *)

\* C38: an item that a script which has not resolved itself has added in
\* place to the cache group it was handed is in the cache group of the
\* engine, whatever the other scripts have resolved with since.
C38_InPlaceEntriesKept ==
  \A i \in 1..Len(reqs) : \A key \in reqs[i].added :
    reqs[i].nResolve = 0 =>
    /\ Has(state.cache, "shared")
    /\ \E j \in 1..Len(state.cache["shared"]) : state.cache["shared"][j].name = key

----------------------------------------------------------------------------
(* Properties of the wrapper walks under cyclic references (SpecWrap) *)

\* C39: every wrapper walk returns: no render and no entry-script
\* composition is left in a loop that does not end.
C39_WrapperWalksTerminate == ~hung

----------------------------------------------------------------------------
(* The trigger cause of a request (SpecTrigger) *)

\* the events the watcher reports for a data file (cli.ts 334-346)
WatchEvents == {"add", "change", "unlink"}

TriggerOps == {OpResolve(WatchResponse(<<DataX>>, <<>>))}

NextTrigger ==
  \/ ScanFile({PageV})
  \/ GeneratePages
  \/ Dispatch(TriggerOps)
  \/ NotifyOf({PageV}, {}, {DataX}, WatchEvents)
  \/ ReadDone
  \/ WindowElapsed
  \/ FinishUpdate

SpecTrigger == Init /\ [][NextTrigger]_vars

\* the reason a notification of the given kind is said to yield
SaidReason(event) ==
  IF event = "add" THEN "Added"
  ELSE IF event = "change" THEN "Modified"
  ELSE "Deleted"

\* C40: the trigger cause handed to a generate script matches the
\* notification that queued it: it names the path of a data file that was
\* reported with the page among its dependents, with reason Added when the
\* file was reported as added, Modified when reported as changed and
\* Deleted when reported as removed; a request queued otherwise (by a
\* scan or by a template or global update) carries no trigger cause.
C40_TriggerCauseMatches ==
  \A i \in 1..Len(reqs) :
    reqs[i].triggeredBy # <<>> =>
      \E n \in 1..Len(watch.lookups) :
        LET l == watch.lookups[n]
            t == reqs[i].triggeredBy[1]
        IN /\ t.path = JoinSlash(l.path)
           /\ reqs[i].name \in l.deps
           /\ t.reason = SaidReason(l.event)

====
